---- MODULE Spec2Model ----
(***************************************************************************)
(* Task manager: the in-memory Task Store (lib/taskStore.ts), the CRUD     *)
(* route handlers over it (app/api/tasks/route.ts and                      *)
(* app/api/tasks/[id]/route.ts), the client's derived view                 *)
(* (hooks/useTaskFilters.ts), its pagination (hooks/usePagination.ts), the *)
(* Redux slice and its thunks (store/taskSlice.ts), the task form          *)
(* (hooks/useTaskForm.ts), the task list page (app/tasks/TaskListClient.tsx *)
(* with components/TaskFiltersBar.tsx) and the edit page                   *)
(* (app/tasks/[id]/edit/page.tsx).                                         *)
(*                                                                         *)
(* JavaScript strings are TLA+ strings; a JSON object is a function from   *)
(* the keys it holds to their values, so a key that is absent is absent    *)
(* from the DOMAIN.                                                        *)
(***************************************************************************)
EXTENDS Integers, Sequences, FiniteSets, TLC

VARIABLES
    store,      \* globalThis.__taskStore: the array of Task records
    uuids,      \* how many ids crypto.randomUUID() has handed out
    clock,      \* the server's clock, in ms since StartDate T00:00:00.000Z
    nreq,       \* number of HTTP requests served so far
    req,        \* the last HTTP request
    resp,       \* the response to it
    tasks,      \* client: state.tasks.tasks
    filters,    \* client: state.tasks.filters
    filteredTasks,  \* client: what useTaskFilters returned at the last render
    isFiltered, \* client: the isFiltered flag useTaskFilters returned with it
    items,      \* usePagination: the list the component pages through
    pageSize,   \* usePagination: its pageSize argument
    currentPage,       \* usePagination: the currentPage state
    currentPageItems,  \* usePagination: what pageItems(items) returned at the last render
    selectedTask,  \* client: state.tasks.selectedTask, << >> for null or <<task>>
    status,     \* client: state.tasks.status
    error,      \* client: state.tasks.error, a message or Null
    inflight,   \* the thunks dispatched and not yet settled, with their HTTP exchange
    nops,       \* number of thunks dispatched so far
    initialValues,  \* useTaskForm: the argument of its first render, {} for undefined
    values,     \* useTaskForm: the values state
    errors,     \* useTaskForm: the errors state
    nchanges,   \* number of handleChange calls so far
    deleteDialog,  \* TaskListClient: the deleteDialog state, [open, taskId]
    editPage    \* EditTaskPage: params.id, its task, fetchLoading and fetchError state
                \* and its fetch of the task

serverVars == <<store, uuids, clock, nreq, req, resp>>
clientVars == <<tasks, filters, filteredTasks, isFiltered>>
pageVars == <<items, pageSize, currentPage, currentPageItems>>
sliceVars == <<selectedTask, status, error>>
thunkVars == <<inflight, nops>>
formVars == <<initialValues, values, errors, nchanges>>
localVars == <<deleteDialog, editPage>>
uiVars == <<pageVars, sliceVars, thunkVars, formVars, localVars>>
vars == <<serverVars, clientVars, uiVars>>

----------------------------------------------------------------------------
(* Bounds of the model *)

\* Spec serves at most this many HTTP requests.
MaxReq == 2

----------------------------------------------------------------------------
(* store/taskSlice.ts: initialState *)

\* null, where the slice holds a string or null
Null == "<null>"

\* selectedTask: null, status: "idle", error: null; nothing dispatched yet
SliceInit ==
    /\ selectedTask = << >>
    /\ status = "idle"
    /\ error = Null
    /\ inflight = << >>
    /\ nops = 0

----------------------------------------------------------------------------
(* hooks/useTaskForm.ts: the hook's first render *)

\* undefined, where an object's key holds a string or undefined
Undefined == "<undefined>"

\* Array.prototype.join(sep)
RECURSIVE join(_, _)
join(arr, sep) ==
    IF arr = << >> THEN ""
    ELSE IF Len(arr) = 1 THEN arr[1]
    ELSE arr[1] \o sep \o join(Tail(arr), sep)

\* initialValues?.[k] ?? dflt
OrDefault(obj, k, dflt) == IF k \in DOMAIN obj THEN obj[k] ELSE dflt

\* buildInitial() over the hook's initialValues argument
buildInitial(init) ==
    [title |-> OrDefault(init, "title", ""),
     description |-> OrDefault(init, "description", ""),
     priority |-> OrDefault(init, "priority", "medium"),
     status |-> OrDefault(init, "status", "todo"),
     dueDate |-> OrDefault(init, "dueDate", ""),
     assignedTo |-> OrDefault(init, "assignedTo", ""),
     tags |-> IF "tags" \in DOMAIN init THEN join(init.tags, ", ") ELSE ""]

\* useTaskForm(init): values is buildInitial(), errors is {}
FormInit(init) ==
    /\ initialValues = init
    /\ values = buildInitial(init)
    /\ errors = [k \in {} |-> ""]
    /\ nchanges = 0

----------------------------------------------------------------------------
(* hooks/usePagination.ts *)

\* const PAGE_SIZE = 6 of the task list
PAGE_SIZE == 6

\* Math.max and Math.min of two numbers
Max(a, b) == IF a >= b THEN a ELSE b
Min(a, b) == IF a <= b THEN a ELSE b

\* Math.ceil(a / b) for a >= 0 and b > 0
ceil(a, b) == IF a % b = 0 THEN a \div b ELSE (a \div b) + 1

\* mutant of totalPages: Math.floor in the place of Math.ceil
totalPagesFloor(totalItems, size) == Max(1, totalItems \div size)

\* Math.max(1, Math.ceil(totalItems / pageSize))
totalPages(totalItems, size) == Max(1, ceil(totalItems, size))

\* Array.prototype.slice(start, end) for start, end >= 0: indices start .. end - 1
\* (0-based) that the array has
slice(arr, start, end) == SubSeq(arr, Min(start, Len(arr)) + 1, Min(end, Len(arr)))

\* mutant of pageItems: the slice also takes the element at index end
pageItemsInclusive(list, page, size) ==
    slice(list, (page - 1) * size, (page - 1) * size + size + 1)

\* pageItems(items) on page `page`
pageItems(list, page, size) ==
    LET start == (page - 1) * size
        end   == start + size
    IN  slice(list, start, end)

\* the hook's state and outputs after its first render over the list
PageInit(list, size) ==
    /\ items = list
    /\ pageSize = size
    /\ currentPage = 1
    /\ currentPageItems = pageItems(list, 1, size)

\* setCurrentPage(page) and the render that follows it
setCurrentPage(page) ==
    /\ currentPage' = page
    /\ currentPageItems' = pageItems(items, page, pageSize)
    /\ UNCHANGED <<items, pageSize>>

\* TaskListClient renders again: usePagination(filteredTasks.length, PAGE_SIZE) and
\* pageItems(filteredTasks), over the list `list` with currentPage being `page`
usePagination(list, page) ==
    /\ items' = list
    /\ pageSize' = pageSize
    /\ currentPage' = page
    /\ currentPageItems' = pageItems(list, page, pageSize)

\* useState({ open: false, taskId: null, ... }) of TaskListClient
NoDialog == [open |-> FALSE, taskId |-> Null]

\* no edit page is displayed
NoEditPage == [id |-> Null, task |-> << >>, fetchLoading |-> FALSE, fetchError |-> Null,
               fetch |-> "none", res |-> [status |-> 0, json |-> << >>]]

ListInit == deleteDialog = NoDialog /\ editPage = NoEditPage

----------------------------------------------------------------------------
(* String.prototype functions *)

UpperChars == "ABCDEFGHIJKLMNOPQRSTUVWXYZ"
LowerChars == "abcdefghijklmnopqrstuvwxyz"
Digits == "0123456789"

CharAt(s, i) == SubSeq(s, i, i)

\* index (1-based) of the one-character string c in alphabet, 0 if absent
IndexIn(alphabet, c) ==
    IF \E i \in 1..Len(alphabet) : CharAt(alphabet, i) = c
    THEN CHOOSE i \in 1..Len(alphabet) : CharAt(alphabet, i) = c
    ELSE 0

UpperSet == {CharAt(UpperChars, i) : i \in 1..Len(UpperChars)}

\* the lower-case letter of each upper-case letter
LowerOf == [c \in UpperSet |-> CharAt(LowerChars, IndexIn(UpperChars, c))]

toLowerCaseChar(c) == IF c \in UpperSet THEN LowerOf[c] ELSE c

RECURSIVE toLowerCase(_)
toLowerCase(s) ==
    IF s = "" THEN "" ELSE toLowerCaseChar(CharAt(s, 1)) \o toLowerCase(SubSeq(s, 2, Len(s)))

\* s.includes(k)
includes(s, k) ==
    \E i \in 0..(Len(s) - Len(k)) : SubSeq(s, i + 1, i + Len(k)) = k

IsWhiteSpace(c) == c \in {" ", "\t", "\n", "\r"}

RECURSIVE trimStart(_)
trimStart(s) ==
    IF s # "" /\ IsWhiteSpace(CharAt(s, 1)) THEN trimStart(SubSeq(s, 2, Len(s))) ELSE s

RECURSIVE trimEnd(_)
trimEnd(s) ==
    IF s # "" /\ IsWhiteSpace(CharAt(s, Len(s))) THEN trimEnd(SubSeq(s, 1, Len(s) - 1)) ELSE s

\* mutant of trim: the string is used as typed
trimOmitted(s) == s

trim(s) == trimEnd(trimStart(s))

----------------------------------------------------------------------------
(* Date: new Date(string).getTime() and new Date().toISOString()            *)
(* A time value is kept in two limbs, day (days since 1970-01-01) and ms    *)
(* (milliseconds of that day), because the millisecond count of a present   *)
(* date does not fit TLC's integers. valid = FALSE is the NaN time value.   *)

IsDigits(s) == \A i \in 1..Len(s) : IndexIn(Digits, CharAt(s, i)) > 0

RECURSIVE ToNumber(_)
ToNumber(s) ==
    IF s = "" THEN 0
    ELSE 10 * ToNumber(SubSeq(s, 1, Len(s) - 1)) + (IndexIn(Digits, CharAt(s, Len(s))) - 1)

RECURSIVE Pad(_, _)
Pad(n, width) ==
    IF width = 0 THEN "" ELSE Pad(n \div 10, width - 1) \o CharAt(Digits, (n % 10) + 1)

\* MakeDay(year, month, 1) + date - 1: days since the epoch of a civil date
MakeDay(y, m, d) ==
    LET yy  == IF m <= 2 THEN y - 1 ELSE y
        era == yy \div 400
        yoe == yy - era * 400
        mp  == IF m > 2 THEN m - 3 ELSE m + 9
        doy == (153 * mp + 2) \div 5 + d - 1
        doe == yoe * 365 + yoe \div 4 - yoe \div 100 + doy
    IN  era * 146097 + doe - 719468

NaN == [valid |-> FALSE, day |-> 0, ms |-> 0]

\* "YYYY-MM-DD"
IsDateForm(s) ==
    /\ Len(s) = 10
    /\ CharAt(s, 5) = "-" /\ CharAt(s, 8) = "-"
    /\ IsDigits(SubSeq(s, 1, 4)) /\ IsDigits(SubSeq(s, 6, 7)) /\ IsDigits(SubSeq(s, 9, 10))
    /\ ToNumber(SubSeq(s, 6, 7)) \in 1..12
    /\ ToNumber(SubSeq(s, 9, 10)) \in 1..31

\* "HH:mm:ss.sssZ"
IsTimeForm(s) ==
    /\ Len(s) = 13
    /\ CharAt(s, 3) = ":" /\ CharAt(s, 6) = ":" /\ CharAt(s, 9) = "." /\ CharAt(s, 13) = "Z"
    /\ IsDigits(SubSeq(s, 1, 2)) /\ IsDigits(SubSeq(s, 4, 5))
    /\ IsDigits(SubSeq(s, 7, 8)) /\ IsDigits(SubSeq(s, 10, 12))
    /\ ToNumber(SubSeq(s, 1, 2)) \in 0..23
    /\ ToNumber(SubSeq(s, 4, 5)) \in 0..59
    /\ ToNumber(SubSeq(s, 7, 8)) \in 0..59

DayOf(s) == MakeDay(ToNumber(SubSeq(s, 1, 4)), ToNumber(SubSeq(s, 6, 7)), ToNumber(SubSeq(s, 9, 10)))

MsOf(s) ==
    ((ToNumber(SubSeq(s, 1, 2)) * 60 + ToNumber(SubSeq(s, 4, 5))) * 60
        + ToNumber(SubSeq(s, 7, 8))) * 1000 + ToNumber(SubSeq(s, 10, 12))

\* new Date(s).getTime(), for the two ISO forms the program itself produces
\* (a date input's "YYYY-MM-DD" and toISOString's "YYYY-MM-DDTHH:mm:ss.sssZ");
\* any other string is an Invalid Date.
getTime(s) ==
    IF IsDateForm(s) THEN [valid |-> TRUE, day |-> DayOf(s), ms |-> 0]
    ELSE IF Len(s) = 24 /\ IsDateForm(SubSeq(s, 1, 10)) /\ CharAt(s, 11) = "T"
            /\ IsTimeForm(SubSeq(s, 12, 24))
    THEN [valid |-> TRUE, day |-> DayOf(SubSeq(s, 1, 10)), ms |-> MsOf(SubSeq(s, 12, 24))]
    ELSE NaN

isNaN(t) == ~t.valid

\* a.getTime() - b.getTime() as -1, 0 or 1 (the sign is all a comparator's caller reads);
\* NaN when either is NaN, which Array.prototype.sort reads as 0
TimeDiffSign(a, b) ==
    IF isNaN(a) \/ isNaN(b) THEN 0
    ELSE IF a.day # b.day THEN (IF a.day > b.day THEN 1 ELSE -1)
    ELSE IF a.ms # b.ms THEN (IF a.ms > b.ms THEN 1 ELSE -1)
    ELSE 0

\* The day the server's clock runs in.
StartDate == "2025-03-01"

\* new Date().toISOString() when the clock reads ms milliseconds into StartDate
toISOString(ms) ==
    StartDate \o "T" \o Pad(ms \div 3600000, 2) \o ":" \o Pad((ms \div 60000) % 60, 2)
        \o ":" \o Pad((ms \div 1000) % 60, 2) \o "." \o Pad(ms % 1000, 3) \o "Z"

\* mutant of randomUUID: every call returns the same value
randomUUIDRepeated(n) == "uuid-01"

\* the n-th value of crypto.randomUUID(): every call returns a value not returned before
randomUUID(n) == "uuid-" \o Pad(n, 2)

----------------------------------------------------------------------------
(* lib/taskStore.ts *)

TaskFields == {"id", "title", "description", "priority", "status", "dueDate",
               "createdAt", "tags", "assignedTo"}

\* the JSON object {}
EmptyObj == [k \in {} |-> ""]

\* number of seed tasks
NumSeed == 5

\* The seed array, built when the module is first loaded at clock reading ms.
SeedTasks(ms) == <<
    [id |-> randomUUID(1), title |-> "Design the homepage UI",
     description |-> "Create wireframes and mockups for the landing page",
     priority |-> "high", status |-> "in-progress", dueDate |-> "2025-03-15",
     createdAt |-> toISOString(ms), tags |-> <<"design", "frontend">>, assignedTo |-> "Alice"],
    [id |-> randomUUID(2), title |-> "Set up database schema",
     description |-> "Design and implement the PostgreSQL database schema",
     priority |-> "high", status |-> "todo", dueDate |-> "2025-03-10",
     createdAt |-> toISOString(ms), tags |-> <<"backend", "database">>, assignedTo |-> "Bob"],
    [id |-> randomUUID(3), title |-> "Write unit tests",
     description |-> "Add tests for all utility functions and components",
     priority |-> "medium", status |-> "todo", dueDate |-> "2025-03-20",
     createdAt |-> toISOString(ms), tags |-> <<"testing">>, assignedTo |-> "Charlie"],
    [id |-> randomUUID(4), title |-> "Deploy to staging server",
     description |-> "Push latest build to the staging environment",
     priority |-> "low", status |-> "done", dueDate |-> "2025-02-28",
     createdAt |-> toISOString(ms), tags |-> <<"devops">>, assignedTo |-> "Alice"],
    [id |-> randomUUID(5), title |-> "Fix authentication bug",
     description |-> "Users are being logged out unexpectedly after 5 minutes",
     priority |-> "high", status |-> "in-progress", dueDate |-> "2025-03-05",
     createdAt |-> toISOString(ms), tags |-> <<"bug", "auth">>, assignedTo |-> "Bob"] >>

getTasks(s) == s

addTask(s, task) == Append(s, task)

\* mutant of findIndex: the callback's test is true of every element (t.id = id)
findIndexAnyElement(s, id) == IF Len(s) > 0 THEN 1 ELSE 0

\* store.findIndex((t) => t.id === id), 1-based; 0 stands for JavaScript's -1
findIndex(s, id) ==
    IF \E i \in 1..Len(s) : s[i].id = id
    THEN CHOOSE i \in 1..Len(s) : s[i].id = id /\ \A j \in 1..(i - 1) : s[j].id # id
    ELSE 0

\* { ...old, ...data, id }
MergeTask(old, data, id) ==
    [k \in (DOMAIN old) \cup (DOMAIN data) \cup {"id"} |->
        IF k = "id" THEN id ELSE IF k \in DOMAIN data THEN data[k] ELSE old[k]]

\* mutant of updateTask: the merged record is written to the first slot of the array
updateTaskFirstSlot(s, id, data) ==
    LET index == findIndex(s, id) IN
    IF index = 0 THEN [found |-> FALSE, task |-> EmptyObj, store |-> s]
    ELSE LET merged == MergeTask(s[index], data, id) IN
         [found |-> TRUE, task |-> merged, store |-> [s EXCEPT ![1] = merged]]

\* updateTask(id, data): found = FALSE is the null result; store is the array afterwards
updateTask(s, id, data) ==
    LET index == findIndex(s, id) IN
    IF index = 0 THEN [found |-> FALSE, task |-> EmptyObj, store |-> s]
    ELSE LET merged == MergeTask(s[index], data, id) IN
         [found |-> TRUE, task |-> merged, store |-> [s EXCEPT ![index] = merged]]

\* mutant of deleteTask: the filter keeps the matching task and drops the others
deleteTaskInverted(s, id) ==
    LET kept == SelectSeq(s, LAMBDA t : t.id = id) IN
    [deleted |-> Len(kept) < Len(s), store |-> kept]

\* deleteTask(id): deleted is the boolean result; store is the array afterwards
deleteTask(s, id) ==
    LET kept == SelectSeq(s, LAMBDA t : t.id # id) IN
    [deleted |-> Len(kept) < Len(s), store |-> kept]

\* findTaskById(id): found = FALSE is the undefined result
findTaskById(s, id) ==
    LET index == findIndex(s, id) IN
    IF index = 0 THEN [found |-> FALSE, task |-> EmptyObj]
    ELSE [found |-> TRUE, task |-> s[index]]

----------------------------------------------------------------------------
(* Route handlers. A handler's result is the response (status, json) and the *)
(* store it leaves.                                                          *)

Reply(code, payload, s) == [status |-> code, json |-> payload, store |-> s]

Error(msg) == [error |-> msg]

\* !obj[k] for a key holding a string when present
Falsy(obj, k) == k \notin DOMAIN obj \/ obj[k] = ""

\* obj[k] || dflt
OrElse(obj, k, dflt) == IF Falsy(obj, k) THEN dflt ELSE obj[k]

validPriorities == <<"low", "medium", "high">>
validStatuses == <<"todo", "in-progress", "done">>

\* array.includes(x)
arrayIncludes(arr, x) == \E i \in 1..Len(arr) : arr[i] = x

\* task.tags.some((tag) => tag.toLowerCase().includes(keyword))
tagsSome(tags, keyword) == \E i \in 1..Len(tags) : includes(toLowerCase(tags[i]), keyword)

\* if (param): searchParams.get(k) is a non-empty string
ParamGiven(query, k) == k \in DOMAIN query /\ query[k] # ""

\* mutant of matchesKeyword: the tags are not searched
matchesKeywordNoTags(t, keyword) ==
    \/ includes(toLowerCase(t.title), keyword)
    \/ includes(toLowerCase(t.description), keyword)

\* the search filter's test of one task
matchesKeyword(t, keyword) ==
    \/ includes(toLowerCase(t.title), keyword)
    \/ includes(toLowerCase(t.description), keyword)
    \/ tagsSome(t.tags, keyword)

\* GET /api/tasks
GET(s, query) ==
    LET byStatus   == IF ParamGiven(query, "status")
                      THEN SelectSeq(getTasks(s), LAMBDA t : t.status = query.status)
                      ELSE getTasks(s)
        byPriority == IF ParamGiven(query, "priority")
                      THEN SelectSeq(byStatus, LAMBDA t : t.priority = query.priority)
                      ELSE byStatus
        bySearch   == IF ParamGiven(query, "search")
                      THEN LET keyword == toLowerCase(query.search) IN
                           SelectSeq(byPriority, LAMBDA t : matchesKeyword(t, keyword))
                      ELSE byPriority
    IN  Reply(200, bySearch, s)

\* POST /api/tasks. raw.json says whether request.json() parses the body; id and now
\* are what crypto.randomUUID() and new Date() return during the call.
POST(s, raw, id, now) ==
    IF ~raw.json
    THEN Reply(500, Error("Invalid request body. Please send valid JSON."), s)
    ELSE LET body == raw.obj IN
    IF Falsy(body, "title") \/ trim(body.title) = ""
    THEN Reply(400, Error("Title is required and cannot be empty"), s)
    ELSE IF Falsy(body, "dueDate") \/ isNaN(getTime(body.dueDate))
    THEN Reply(400, Error("dueDate is required and must be a valid date string (e.g. 2025-03-15)"), s)
    ELSE IF Falsy(body, "priority") \/ ~arrayIncludes(validPriorities, body.priority)
    THEN Reply(400, Error("priority must be one of: low, medium, high"), s)
    ELSE IF Falsy(body, "status") \/ ~arrayIncludes(validStatuses, body.status)
    THEN Reply(400, Error("status must be one of: todo, in-progress, done"), s)
    ELSE LET newTask == [id |-> id,
                         title |-> trim(body.title),
                         description |-> OrElse(body, "description", ""),
                         priority |-> body.priority,
                         status |-> body.status,
                         dueDate |-> body.dueDate,
                         createdAt |-> toISOString(now),
                         tags |-> IF "tags" \in DOMAIN body THEN body.tags ELSE << >>,
                         assignedTo |-> OrElse(body, "assignedTo", "")]
         IN  Reply(201, newTask, addTask(s, newTask))

\* GET /api/tasks/:id
GETById(s, id) ==
    LET task == findTaskById(s, id) IN
    IF ~task.found THEN Reply(404, Error("Task not found"), s)
    ELSE Reply(200, task.task, s)

\* PUT /api/tasks/:id, were the body merged before it is validated
PUTMergeFirst(s, id, raw) ==
    LET existingTask == findTaskById(s, id) IN
    IF ~existingTask.found THEN Reply(404, Error("Task not found"), s)
    ELSE IF ~raw.json THEN Reply(500, Error("Invalid request body"), s)
    ELSE LET body == raw.obj
             updatedTask == updateTask(s, id, body) IN
    IF "dueDate" \in DOMAIN body /\ isNaN(getTime(body.dueDate))
    THEN Reply(400, Error("dueDate must be a valid date string"), updatedTask.store)
    ELSE IF "title" \in DOMAIN body /\ trim(body.title) = ""
    THEN Reply(400, Error("Title cannot be empty"), updatedTask.store)
    ELSE Reply(200, updatedTask.task, updatedTask.store)

\* PUT /api/tasks/:id
PUT(s, id, raw) ==
    LET existingTask == findTaskById(s, id) IN
    IF ~existingTask.found THEN Reply(404, Error("Task not found"), s)
    ELSE IF ~raw.json THEN Reply(500, Error("Invalid request body"), s)
    ELSE LET body == raw.obj IN
    IF "dueDate" \in DOMAIN body /\ isNaN(getTime(body.dueDate))
    THEN Reply(400, Error("dueDate must be a valid date string"), s)
    ELSE IF "title" \in DOMAIN body /\ trim(body.title) = ""
    THEN Reply(400, Error("Title cannot be empty"), s)
    ELSE LET updatedTask == updateTask(s, id, body) IN
         IF ~updatedTask.found THEN Reply(404, Error("Task not found"), s)
         ELSE Reply(200, updatedTask.task, updatedTask.store)

\* DELETE /api/tasks/:id
DELETE(s, id) ==
    LET wasDeleted == deleteTask(s, id) IN
    IF ~wasDeleted.deleted THEN Reply(404, Error("Task not found"), wasDeleted.store)
    ELSE Reply(200, [message |-> "Task deleted"], wasDeleted.store)

----------------------------------------------------------------------------
(* The requests the model sends *)

\* marks a key the request leaves out
Absent == "<absent>"

\* the JSON object holding k: v, or {} when v is Absent
Opt(k, v) == IF v = Absent THEN EmptyObj ELSE (k :> v)

Json(obj) == [json |-> TRUE, obj |-> obj]
NotJson == [json |-> FALSE, obj |-> EmptyObj]

TitleIn == {Absent, "  ", " Ship the API "}
DueDateIn == {Absent, "next week", "2025-04-01"}
PriorityIn == {"urgent", "low"}
StatusIn == {Absent, "done"}

PostBodies ==
    {Opt("title", t) @@ Opt("dueDate", d) @@ Opt("priority", p) @@ Opt("status", st) :
        t \in TitleIn, d \in DueDateIn, p \in PriorityIn, st \in StatusIn}
    \cup {[title |-> "", dueDate |-> "2025-04-01", priority |-> "low", status |-> "done"],
          [title |-> "Fix the login page", dueDate |-> "2025-04-02", priority |-> "medium",
           status |-> "in-progress", description |-> "Escalate to DevOps",
           tags |-> <<"Ops", "bug">>, assignedTo |-> "Dana"]}

PutBodies ==
    {EmptyObj}
    \cup {"title" :> v : v \in {"", " Ship it "}}
    \cup {"dueDate" :> v : v \in {"next week", "2025-04-01"}}
    \cup {"priority" :> v : v \in {"urgent", "low"}}
    \cup {"status" :> v : v \in {"blocked", "done"}}
    \cup {"description" :> "call BOB", "tags" :> <<"Ops">>}
    \cup {"id" :> "uuid-99", "createdAt" :> "2001-01-01T00:00:00.000Z"}
    \cup {[status |-> "done", title |-> "  "],
          [status |-> "done", dueDate |-> "next week"],
          [status |-> "todo", assignedTo |-> ""],
          [id |-> randomUUID(2), createdAt |-> "soon"]}

\* ids the requests address: two seed tasks, the first created task, an unknown id
TargetIds == {randomUUID(1), randomUUID(2), randomUUID(NumSeed + 1), "no-such-id"}

Queries ==
    {Opt("status", st) @@ Opt("priority", p) @@ Opt("search", q) :
        st \in {Absent, "", "todo"},
        p \in {Absent, "high"},
        q \in {Absent, "DevOps", "postgresql", "BUG"}}

NoRequest == [op |-> "none", id |-> "", query |-> EmptyObj, raw |-> NotJson]
NoResponse == [status |-> 0, json |-> EmptyObj]

defaultFilters == [status |-> "all", priority |-> "all", search |-> ""]

----------------------------------------------------------------------------
(* The server: one action per route handler *)

Serve(request, result) ==
    /\ nreq' = nreq + 1
    /\ req' = request
    /\ resp' = [status |-> result.status, json |-> result.json]
    /\ store' = result.store

ListRequest ==
    /\ nreq < MaxReq
    /\ \E q \in Queries :
        Serve([NoRequest EXCEPT !.op = "GET", !.query = q], GET(store, q))
    /\ UNCHANGED <<uuids, clock, clientVars, uiVars>>

\* when the handler reads the clock it has advanced by 0 or 1 ms since it was last read
CreateRequest ==
    /\ nreq < MaxReq
    /\ \E raw \in {Json(b) : b \in PostBodies} \cup {NotJson}, elapsed \in {0, 1} :
        LET result == POST(store, raw, randomUUID(uuids + 1), clock + elapsed) IN
        /\ result.status # 201 => elapsed = 0
        /\ Serve([NoRequest EXCEPT !.op = "POST", !.raw = raw], result)
        /\ uuids' = IF result.status = 201 THEN uuids + 1 ELSE uuids
        /\ clock' = clock + elapsed
    /\ UNCHANGED <<clientVars, uiVars>>

ReadRequest ==
    /\ nreq < MaxReq
    /\ \E id \in TargetIds :
        Serve([NoRequest EXCEPT !.op = "GET/:id", !.id = id], GETById(store, id))
    /\ UNCHANGED <<uuids, clock, clientVars, uiVars>>

UpdateRequest ==
    /\ nreq < MaxReq
    /\ \E id \in TargetIds, raw \in {Json(b) : b \in PutBodies} \cup {NotJson} :
        Serve([NoRequest EXCEPT !.op = "PUT", !.id = id, !.raw = raw], PUT(store, id, raw))
    /\ UNCHANGED <<uuids, clock, clientVars, uiVars>>

DeleteRequest ==
    /\ nreq < MaxReq
    /\ \E id \in TargetIds :
        Serve([NoRequest EXCEPT !.op = "DELETE", !.id = id], DELETE(store, id))
    /\ UNCHANGED <<uuids, clock, clientVars, uiVars>>

Init ==
    /\ store = SeedTasks(0)
    /\ uuids = NumSeed
    /\ clock = 0
    /\ nreq = 0
    /\ req = NoRequest
    /\ resp = NoResponse
    /\ tasks = << >>
    /\ filters = defaultFilters
    /\ filteredTasks = << >>
    /\ isFiltered = FALSE
    /\ PageInit(filteredTasks, PAGE_SIZE)
    /\ SliceInit
    /\ FormInit([k \in {} |-> ""])
    /\ ListInit

Next ==
    \/ ListRequest
    \/ CreateRequest
    \/ ReadRequest
    \/ UpdateRequest
    \/ DeleteRequest

Spec == Init /\ [][Next]_vars

----------------------------------------------------------------------------
(* hooks/useTaskFilters.ts: the derived view of the client store *)

\* mutant of compareCreatedAt: the operands are swapped (oldest first)
compareCreatedAtSwapped(a, b) == TimeDiffSign(getTime(a.createdAt), getTime(b.createdAt))

\* (a, b) => new Date(b.createdAt).getTime() - new Date(a.createdAt).getTime()
compareCreatedAt(a, b) == TimeDiffSign(getTime(b.createdAt), getTime(a.createdAt))

\* x put into the sorted array after every element that does not sort after it
insertSorted(sorted, x) ==
    LET n == Cardinality({i \in 1..Len(sorted) : compareCreatedAt(sorted[i], x) <= 0}) IN
    SubSeq(sorted, 1, n) \o <<x>> \o SubSeq(sorted, n + 1, Len(sorted))

\* result.sort(compareCreatedAt): Array.prototype.sort is stable
RECURSIVE sort(_)
sort(arr) ==
    IF arr = << >> THEN << >>
    ELSE insertSorted(sort(SubSeq(arr, 1, Len(arr) - 1)), arr[Len(arr)])

\* mutant of matchesSearch: the tags are searched too, as the API's list filter does
matchesSearchWithTags(t, keyword) ==
    \/ includes(toLowerCase(t.title), keyword)
    \/ includes(toLowerCase(t.description), keyword)
    \/ tagsSome(t.tags, keyword)

\* the search filter's test of one task
matchesSearch(t, keyword) ==
    \/ includes(toLowerCase(t.title), keyword)
    \/ includes(toLowerCase(t.description), keyword)

\* the useMemo of the hook: the filtered and sorted copy of the store's array
filteredTasksOf(ts, fs) ==
    LET copy       == ts
        byStatus   == IF fs.status # "all"
                      THEN SelectSeq(copy, LAMBDA t : t.status = fs.status) ELSE copy
        byPriority == IF fs.priority # "all"
                      THEN SelectSeq(byStatus, LAMBDA t : t.priority = fs.priority)
                      ELSE byStatus
        bySearch   == IF trim(fs.search) # ""
                      THEN LET keyword == toLowerCase(fs.search) IN
                           SelectSeq(byPriority, LAMBDA t : matchesSearch(t, keyword))
                      ELSE byPriority
    IN  sort(bySearch)

\* mutant of useTaskFilters: isFiltered tests the search text as typed, untrimmed
useTaskFiltersSearchUntrimmed(ts, fs) ==
    [tasks |-> ts,
     filteredTasks |-> filteredTasksOf(ts, fs),
     totalCount |-> Len(ts),
     isFiltered |-> (fs.status # "all" \/ fs.priority # "all" \/ fs.search # "")]

\* what one call of the hook leaves: the store's array (the hook sorts a copy of it)
\* and the values it returns
useTaskFilters(ts, fs) ==
    [tasks |-> ts,
     filteredTasks |-> filteredTasksOf(ts, fs),
     totalCount |-> Len(ts),
     isFiltered |-> (fs.status # "all" \/ fs.priority # "all" \/ trim(fs.search) # "")]

\* Largest client collection SpecView starts from.
MaxViewTasks == 3

\* the tasks SpecView's client collections are made of
ViewTaskPool == <<
    [id |-> "uuid-11", title |-> "Fix Login BUG", description |-> "",
     priority |-> "high", status |-> "todo", dueDate |-> "2025-03-15",
     createdAt |-> "2025-03-01T08:30:00.000Z", tags |-> <<"auth">>, assignedTo |-> "Bob"],
    [id |-> "uuid-12", title |-> "Write docs", description |-> "Explain the LOGIN flow",
     priority |-> "low", status |-> "done", dueDate |-> "2025-03-20",
     createdAt |-> "2025-03-01T08:30:00.001Z", tags |-> <<"docs">>, assignedTo |-> ""],
    [id |-> "uuid-13", title |-> "Deploy", description |-> "Push the build",
     priority |-> "high", status |-> "done", dueDate |-> "2025-02-28",
     createdAt |-> "2025-03-01T08:30:00.000Z", tags |-> <<"Login", "devops">>,
     assignedTo |-> "Alice"],
    [id |-> "uuid-14", title |-> "Plan sprint", description |-> "push Estimates",
     priority |-> "medium", status |-> "todo", dueDate |-> "2025-03-05",
     createdAt |-> "2025-02-28T23:59:59.999Z", tags |-> << >>, assignedTo |-> "Bob"] >>

\* every array of at most MaxViewTasks different pool tasks, in every order
ViewCollections ==
    UNION {{[i \in 1..n |-> ViewTaskPool[f[i]]] :
                f \in {g \in [1..n -> 1..Len(ViewTaskPool)] :
                          \A i, j \in 1..n : i # j => g[i] # g[j]}} :
           n \in 0..MaxViewTasks}

FilterPayloads ==
    {[status |-> v] : v \in {"all", "todo", "done"}}
    \cup {[priority |-> v] : v \in {"all", "high"}}
    \cup {[search |-> v] : v \in {"", "  ", "login", "PUSH", "ops "}}

\* the components render again after every change of the store: the hook runs on
\* the store's array ts and filters fs; its useMemo keeps the last filteredTasks
\* when neither of the two has changed
Render(ts, fs) ==
    IF ts = tasks /\ fs = filters
    THEN UNCHANGED <<tasks, filteredTasks, isFiltered>>
    ELSE \E hook \in {useTaskFilters(ts, fs)} :
         /\ tasks' = hook.tasks
         /\ filteredTasks' = hook.filteredTasks
         /\ isFiltered' = hook.isFiltered

\* mutant of MergeFilters: the payload is spread over the default filters
MergeFiltersOverDefaults(fs, payload) ==
    [k \in DOMAIN fs |-> IF k \in DOMAIN payload THEN payload[k] ELSE defaultFilters[k]]

\* state.filters = { ...state.filters, ...action.payload }
MergeFilters(fs, payload) ==
    [k \in (DOMAIN fs) \cup (DOMAIN payload) |->
        IF k \in DOMAIN payload THEN payload[k] ELSE fs[k]]

\* reducer setFilters, dispatched by TaskFiltersBar's handlers
setFilters ==
    /\ \E payload \in FilterPayloads :
        /\ filters' = MergeFilters(filters, payload)
        /\ Render(tasks, MergeFilters(filters, payload))
    /\ usePagination(filteredTasks', currentPage)
    /\ UNCHANGED <<serverVars, sliceVars, thunkVars, formVars, localVars>>

\* reducer clearFilters, dispatched by TaskFiltersBar's handleClear
clearFilters ==
    /\ filters' = defaultFilters
    /\ Render(tasks, defaultFilters)
    /\ usePagination(filteredTasks', currentPage)
    /\ UNCHANGED <<serverVars, sliceVars, thunkVars, formVars, localVars>>

ViewInit ==
    /\ store = SeedTasks(0)
    /\ uuids = NumSeed
    /\ clock = 0
    /\ nreq = 0
    /\ req = NoRequest
    /\ resp = NoResponse
    /\ tasks \in ViewCollections
    /\ filters = defaultFilters
    /\ filteredTasks = useTaskFilters(tasks, filters).filteredTasks
    /\ isFiltered = useTaskFilters(tasks, filters).isFiltered
    /\ PageInit(filteredTasks, PAGE_SIZE)
    /\ SliceInit
    /\ FormInit([k \in {} |-> ""])
    /\ ListInit

ViewNext ==
    \/ setFilters
    \/ clearFilters

SpecView == ViewInit /\ [][ViewNext]_vars

----------------------------------------------------------------------------
(* Properties of the CRUD API over the Task Store, checked under Spec.      *)
(* Every step of Spec serves one request: req' is the request served,      *)
(* resp' the response, store the array before and store' the array after.  *)

AllowedPriorities == {"low", "medium", "high"}
AllowedStatuses == {"todo", "in-progress", "done"}

\* the string holds a character that is not white space
NonBlank(str) == \E j \in 1..Len(str) : ~IsWhiteSpace(CharAt(str, j))

Has(obj, k) == k \in DOMAIN obj

Known(s, id) == \E i \in 1..Len(s) : s[i].id = id

\* C1: after any sequence of create, update and delete requests every task held in
\* the store has a title that is non-empty after trimming, a priority in
\* {low, medium, high} and a status in {todo, in-progress, done}.
C1_StoredTasksValid ==
    \A i \in 1..Len(store) :
        /\ NonBlank(store[i].title)
        /\ store[i].priority \in AllowedPriorities
        /\ store[i].status \in AllowedStatuses

\* C2: an update request, whatever its body (a body that supplies its own id or
\* createdAt included), leaves the id and the createdAt of every stored task as
\* they were.
C2_UpdateKeepsIdAndCreatedAt ==
    [][req'.op = "PUT" =>
        /\ Len(store') = Len(store)
        /\ \A i \in 1..Len(store) :
            /\ store'[i].id = store[i].id
            /\ store'[i].createdAt = store[i].createdAt]_vars

\* C3: an update by an id that is not in the store is answered 404 and leaves the
\* store as it was; an update by a known id whose body supplies only status changes
\* only the status of that task: its other fields and every other task stay as they
\* were.
C3_UpdateFrame ==
    [][req'.op = "PUT" =>
        /\ ~Known(store, req'.id) => (resp'.status = 404 /\ store' = store)
        /\ (Known(store, req'.id) /\ req'.raw.json /\ DOMAIN req'.raw.obj = {"status"}) =>
            /\ resp'.status = 200
            /\ Len(store') = Len(store)
            /\ \A i \in 1..Len(store) :
                IF store[i].id = req'.id
                THEN /\ DOMAIN store'[i] = DOMAIN store[i]
                     /\ store'[i].status = req'.raw.obj.status
                     /\ \A k \in (DOMAIN store[i]) \ {"status"} : store'[i][k] = store[i][k]
                ELSE store'[i] = store[i]]_vars

\* C3's case: a status-only update of the first seed task (in-progress before) went through
C3_Witness ==
    /\ req.op = "PUT" /\ req.id = randomUUID(1)
    /\ req.raw.json /\ DOMAIN req.raw.obj = {"status"}
    /\ resp.status = 200
    /\ \E i \in 1..Len(store) : store[i].id = randomUUID(1) /\ store[i].status = "done"

\* what makes a create request's body invalid
InvalidCreate(body) ==
    \/ ~Has(body, "title") \/ ~NonBlank(body.title)
    \/ ~Has(body, "dueDate") \/ isNaN(getTime(body.dueDate))
    \/ ~Has(body, "priority") \/ body.priority \notin AllowedPriorities
    \/ ~Has(body, "status") \/ body.status \notin AllowedStatuses

\* C4: a create request whose title is missing or empty after trim, whose dueDate is
\* missing or unparseable, or whose priority or status is not an allowed value is
\* answered 400 and leaves the store (its tasks and their count) as it was.
C4_InvalidCreateRejected ==
    [][(req'.op = "POST" /\ req'.raw.json /\ InvalidCreate(req'.raw.obj)) =>
        (resp'.status = 400 /\ store' = store)]_vars

\* C4's case: a create request whose only fault is its priority was answered 400
C4_Witness ==
    /\ req.op = "POST" /\ req.raw.json
    /\ Has(req.raw.obj, "title") /\ NonBlank(req.raw.obj.title)
    /\ Has(req.raw.obj, "dueDate") /\ ~isNaN(getTime(req.raw.obj.dueDate))
    /\ Has(req.raw.obj, "status") /\ req.raw.obj.status \in AllowedStatuses
    /\ req.raw.obj.priority = "urgent"
    /\ resp.status = 400
    /\ Len(store) = NumSeed

Ids(s) == {s[i].id : i \in 1..Len(s)}

UniqueIds(s) == \A i, j \in 1..Len(s) : i # j => s[i].id # s[j].id

\* C5: a create request with a valid payload is answered 201, makes the store one
\* task longer, and the created task's id is the id of no task already in the store;
\* so no two tasks in the store ever share an id.
C5_CreateAssignsFreshId ==
    [][/\ UniqueIds(store)
       /\ UniqueIds(store')
       /\ (req'.op = "POST" /\ req'.raw.json /\ ~InvalidCreate(req'.raw.obj)) =>
            /\ resp'.status = 201
            /\ Len(store') = Len(store) + 1
            /\ resp'.json.id \notin Ids(store)
            /\ \E i \in 1..Len(store') : store'[i] = resp'.json]_vars

\* C5's case: two create requests in a row went through
C5_Witness ==
    /\ req.op = "POST" /\ resp.status = 201
    /\ Len(store) = NumSeed + 2

\* the array without its i-th element
RemoveAt(s, i) == SubSeq(s, 1, i - 1) \o SubSeq(s, i + 1, Len(s))

\* C6: a delete of an id present in the store removes exactly that task (one task
\* fewer, the others unchanged and in the same order) and is answered 200, and a
\* read of that id right after it is answered 404; a delete of an id that is not in
\* the store is answered 404 and leaves the store as it was.
C6_DeleteRemovesExactlyOne ==
    [][/\ req'.op = "DELETE" =>
            IF Known(store, req'.id)
            THEN /\ resp'.status = 200
                 /\ Len(store') = Len(store) - 1
                 /\ \E i \in 1..Len(store) :
                        store[i].id = req'.id /\ store' = RemoveAt(store, i)
            ELSE resp'.status = 404 /\ store' = store
       /\ (req.op = "DELETE" /\ resp.status = 200
                /\ req'.op = "GET/:id" /\ req'.id = req.id) =>
            resp'.status = 404]_vars

\* C6's case: the first seed task was deleted and the read of its id that followed
\* was answered 404
C6_Witness ==
    /\ req.op = "GET/:id" /\ req.id = randomUUID(1)
    /\ resp.status = 404
    /\ Len(store) = NumSeed - 1

\* C7: a task is created and then read by the id the create returned, with no other
\* request in between: the record read equals the record the create returned.
C7_CreateThenRead ==
    [][(req.op = "POST" /\ resp.status = 201
            /\ req'.op = "GET/:id" /\ req'.id = resp.json.id) =>
        (resp'.status = 200 /\ resp'.json = resp.json)]_vars

\* C7's case: the task created from " Ship the API " was read back by its id
C7_Witness ==
    /\ req.op = "GET/:id" /\ req.id = randomUUID(NumSeed + 1)
    /\ resp.status = 200
    /\ resp.json.title = "Ship the API"
    /\ Len(store) = NumSeed + 1

\* the two characters are the same letter, whatever their case
SameLetter(a, b) ==
    \/ a = b
    \/ \E n \in 1..Len(UpperChars) : {a, b} = {CharAt(UpperChars, n), CharAt(LowerChars, n)}

\* text occurs in str, ignoring case
ContainsIgnoringCase(str, text) ==
    \E i \in 0..(Len(str) - Len(text)) :
        \A j \in 1..Len(text) : SameLetter(CharAt(str, i + j), CharAt(text, j))

\* the task passes the restriction of each parameter of query among the keys in given
Satisfies(t, query, given) ==
    /\ "status" \in given => t.status = query.status
    /\ "priority" \in given => t.priority = query.priority
    /\ "search" \in given =>
        \/ ContainsIgnoringCase(t.title, query.search)
        \/ ContainsIgnoringCase(t.description, query.search)
        \/ \E n \in 1..Len(t.tags) : ContainsIgnoringCase(t.tags[n], query.search)

\* the tasks of s that pass, in the order of s
Selected(s, query, given) == SelectSeq(s, LAMBDA t : Satisfies(t, query, given))

\* C8 as stated: the list request returns with 200, in store order, exactly the tasks
\* that satisfy every supplied parameter (only an omitted parameter imposes no
\* restriction), and does not modify the store.
C8_ListAsStated ==
    [][req'.op = "GET" =>
        /\ resp'.status = 200
        /\ resp'.json = Selected(store, req'.query, DOMAIN req'.query)
        /\ store' = store]_vars

\* C8 as amended: the list request returns with 200, in store order, exactly the
\* tasks that satisfy every parameter supplied with a non-empty value (a parameter
\* that is omitted or empty imposes no restriction), and does not modify the store.
C8_ListFilters ==
    [][req'.op = "GET" =>
        /\ resp'.status = 200
        /\ resp'.json = Selected(store, req'.query,
                                 {k \in DOMAIN req'.query : req'.query[k] # ""})
        /\ store' = store]_vars

\* C8's case: an empty status and a search text that only a tag holds, in another
\* case, returned the one task with that tag
C8_Witness ==
    /\ req.op = "GET"
    /\ req.query = [status |-> "", search |-> "DevOps"]
    /\ resp.status = 200
    /\ Len(resp.json) = 1
    /\ resp.json[1].id = randomUUID(4)

----------------------------------------------------------------------------
(* Properties of the derived view, checked under SpecView *)

\* how often x occurs in the array
Count(arr, x) == Cardinality({i \in 1..Len(arr) : arr[i] = x})

\* the two arrays hold the same tasks, each as often
SameTasks(a, b) ==
    /\ Len(a) = Len(b)
    /\ \A i \in 1..Len(a) : Count(a, a[i]) = Count(b, a[i])

\* the instant x is not before the instant y
NotBefore(x, y) == x.day > y.day \/ (x.day = y.day /\ x.ms >= y.ms)

\* every task of the array was created no earlier than the tasks after it
NewestFirst(arr) ==
    \A i, j \in 1..Len(arr) :
        i < j => NotBefore(getTime(arr[i].createdAt), getTime(arr[j].createdAt))

\* C9: with the filters status = all, priority = all and search = "", the derived
\* view holds exactly the tasks of the client collection (same count, none added or
\* dropped) ordered by createdAt descending, and the collection itself keeps its
\* order.
C9_DefaultFiltersView ==
    [][/\ filters' = [status |-> "all", priority |-> "all", search |-> ""] =>
            (SameTasks(filteredTasks', tasks') /\ NewestFirst(filteredTasks'))
       /\ filters = [status |-> "all", priority |-> "all", search |-> ""] =>
            (SameTasks(filteredTasks, tasks) /\ NewestFirst(filteredTasks))
       /\ tasks' = tasks]_vars

\* C9's case: the filters were set and cleared again over a collection of three tasks
\* that is not in newest-first order
C9_Witness ==
    /\ filters = [status |-> "all", priority |-> "all", search |-> ""]
    /\ Len(tasks) = MaxViewTasks
    /\ ~NewestFirst(tasks)
    /\ filteredTasks # tasks
    /\ Len(filteredTasks) = Len(tasks)

\* the string holds only white space
Blank(str) == \A j \in 1..Len(str) : IsWhiteSpace(CharAt(str, j))

\* C10: with status and priority at all and a non-blank search text, the derived view
\* holds exactly the tasks whose title or description contains the search text,
\* ignoring case; a text found only in a task's tags selects no task.
C10_SearchTitleOrDescription ==
    (filters.status = "all" /\ filters.priority = "all" /\ ~Blank(filters.search)) =>
        /\ \A i \in 1..Len(filteredTasks) : Count(tasks, filteredTasks[i]) = Count(filteredTasks, filteredTasks[i])
        /\ \A i \in 1..Len(tasks) :
            (\E n \in 1..Len(filteredTasks) : filteredTasks[n] = tasks[i])
                <=> \/ ContainsIgnoringCase(tasks[i].title, filters.search)
                    \/ ContainsIgnoringCase(tasks[i].description, filters.search)

\* C10's case: "login" is in one task's description as "LOGIN" and in another task's
\* tags as "Login": the view holds the first of the two and no other task
C10_Witness ==
    /\ filters = [status |-> "all", priority |-> "all", search |-> "login"]
    /\ \E i \in 1..Len(tasks) : tasks[i].id = "uuid-13"
    /\ \A i \in 1..Len(tasks) : tasks[i].id # "uuid-11"
    /\ Len(filteredTasks) = 1
    /\ filteredTasks[1].id = "uuid-12"

\* the filters are the defaults but for one field
OneFilterSet(fs) ==
    Cardinality({k \in DOMAIN fs : fs[k] # [status |-> "all", priority |-> "all", search |-> ""][k]}) = 1

\* C11 as stated: isFiltered is true exactly when status is not all, or priority is
\* not all, or the search text is non-empty after trim; from the default filters,
\* setting one filter to any non-default value makes it true and setting that filter
\* back to its default makes it false again.
C11_AsStated ==
    [][/\ isFiltered' <=>
            (filters'.status # "all" \/ filters'.priority # "all" \/ NonBlank(filters'.search))
       /\ (filters = [status |-> "all", priority |-> "all", search |-> ""]
                /\ OneFilterSet(filters')) => isFiltered'
       /\ (filters' = [status |-> "all", priority |-> "all", search |-> ""]
                /\ OneFilterSet(filters)) => ~isFiltered']_vars

\* C11: isFiltered is true exactly when status is not all, or priority is not all,
\* or the search text is non-empty after trim; from the default filters, setting
\* status or priority to a non-default value, or search to a text that is non-empty
\* after trim, makes it true, and setting that filter back to its default makes it
\* false again.
C11_IsFilteredFlag ==
    [][/\ isFiltered <=>
            (filters.status # "all" \/ filters.priority # "all" \/ NonBlank(filters.search))
       /\ isFiltered' <=>
            (filters'.status # "all" \/ filters'.priority # "all" \/ NonBlank(filters'.search))
       /\ (filters = [status |-> "all", priority |-> "all", search |-> ""]
                /\ OneFilterSet(filters') /\ ~Blank(filters'.search)) => isFiltered'
       /\ (filters' = [status |-> "all", priority |-> "all", search |-> ""]
                /\ OneFilterSet(filters)) => ~isFiltered']_vars

\* C11's case: from the defaults the search text was set to two blanks, and the flag
\* is off
C11_Witness ==
    /\ filters = [status |-> "all", priority |-> "all", search |-> "  "]
    /\ ~isFiltered

----------------------------------------------------------------------------
(* The pagination hook over a fixed list, checked under SpecPage *)

\* Longest list and largest page size SpecPage pages through.
MaxItems == 13
MaxPageSize == 6

\* the pages goToPage is asked for: from below 1 to beyond the last page
PageArgs == -1..(MaxItems + 2)

goToPage(page) ==
    /\ LET safePage == Max(1, Min(page, totalPages(Len(items), pageSize))) IN
        setCurrentPage(safePage)
    /\ UNCHANGED <<serverVars, clientVars, sliceVars, thunkVars, formVars, localVars>>

nextPage ==
    /\ setCurrentPage(IF currentPage < totalPages(Len(items), pageSize)
                      THEN currentPage + 1 ELSE currentPage)
    /\ UNCHANGED <<serverVars, clientVars, sliceVars, thunkVars, formVars, localVars>>

prevPage ==
    /\ setCurrentPage(IF currentPage > 1 THEN currentPage - 1 ELSE currentPage)
    /\ UNCHANGED <<serverVars, clientVars, sliceVars, thunkVars, formVars, localVars>>

PageSpecInit ==
    /\ store = SeedTasks(0)
    /\ uuids = NumSeed
    /\ clock = 0
    /\ nreq = 0
    /\ req = NoRequest
    /\ resp = NoResponse
    /\ tasks = << >>
    /\ filters = defaultFilters
    /\ filteredTasks = << >>
    /\ isFiltered = FALSE
    /\ \E n \in 0..MaxItems, size \in 1..MaxPageSize :
        PageInit([i \in 1..n |-> i - 1], size)
    /\ SliceInit
    /\ FormInit([k \in {} |-> ""])
    /\ ListInit

PageNext ==
    \/ \E page \in PageArgs : goToPage(page)
    \/ nextPage
    \/ prevPage

SpecPage == PageSpecInit /\ [][PageNext]_vars

\* the least number of pages of `size` items that hold n items, and at least one
PagesNeeded(n, size) ==
    CHOOSE k \in 1..(n + 1) : k * size >= n /\ (k = 1 \/ (k - 1) * size < n)

\* C12: over a fixed list of n items and a page size s, totalPages is
\* max(1, ceil(n/s)); goToPage(p) sets currentPage to p clamped into [1, totalPages];
\* nextPage at the last page and prevPage at page 1 leave currentPage as it is and
\* otherwise move it by one; currentPage stays within [1, totalPages]; 13 items in
\* pages of 6 make 3 pages.
C12_PageWithinRange ==
    [][LET last == PagesNeeded(Len(items), pageSize) IN
       /\ totalPages(Len(items), pageSize) = last
       /\ (Len(items) = 13 /\ pageSize = 6) => totalPages(Len(items), pageSize) = 3
       /\ currentPage \in 1..last
       /\ currentPage' \in 1..last
       /\ \A p \in PageArgs :
            goToPage(p) => currentPage' = (IF p < 1 THEN 1 ELSE IF p > last THEN last ELSE p)
       /\ nextPage => currentPage' = (IF currentPage = last THEN currentPage ELSE currentPage + 1)
       /\ prevPage => currentPage' = (IF currentPage = 1 THEN currentPage ELSE currentPage - 1)]_vars

\* C12's case: the third and last page of 13 items in pages of 6
C12_Witness ==
    /\ Len(items) = 13 /\ pageSize = 6
    /\ currentPage = 3
    /\ totalPages(Len(items), pageSize) = 3

\* the slices of pages 1..last, one after the other
RECURSIVE PagesJoined(_)
PagesJoined(last) ==
    IF last = 0 THEN << >>
    ELSE PagesJoined(last - 1) \o pageItems(items, last, pageSize)

\* the elements of a list
Elements(list) == {list[i] : i \in 1..Len(list)}

\* C13: pageItems(list) is the list's elements at the indices from
\* (currentPage-1)*pageSize up to but not including currentPage*pageSize, cut at the
\* list's end, in list order; over pages 1..totalPages the slices have no element in
\* common and, joined, are the whole list.
C13_PageSlices ==
    LET from == (currentPage - 1) * pageSize
        upto == IF currentPage * pageSize < Len(items) THEN currentPage * pageSize ELSE Len(items)
        last == totalPages(Len(items), pageSize)
    IN  /\ Len(currentPageItems) = (IF upto > from THEN upto - from ELSE 0)
        /\ \A k \in 1..Len(currentPageItems) : currentPageItems[k] = items[from + k]
        /\ currentPageItems = pageItems(items, currentPage, pageSize)
        /\ PagesJoined(last) = items
        /\ \A p, q \in 1..last :
            p # q => Elements(pageItems(items, p, pageSize))
                        \cap Elements(pageItems(items, q, pageSize)) = {}

\* C13's case: page 3 of 13 items in pages of 6 holds the one item at index 12
C13_Witness ==
    /\ Len(items) = 13 /\ pageSize = 6 /\ currentPage = 3
    /\ currentPageItems = <<12>>

----------------------------------------------------------------------------
(* store/taskSlice.ts: the async thunks and their reducers.  The slice's     *)
(* state is the record [tasks, filters, selectedTask, status, error].        *)

state == [tasks |-> tasks, filters |-> filters, selectedTask |-> selectedTask,
          status |-> status, error |-> error]

\* the URLSearchParams fetchTasks builds from its optional filters argument
fetchTasksParams(arg) ==
    (IF ~Falsy(arg, "status") /\ arg.status # "all" THEN "status" :> arg.status ELSE EmptyObj)
    @@ (IF ~Falsy(arg, "priority") /\ arg.priority # "all"
        THEN "priority" :> arg.priority ELSE EmptyObj)
    @@ (IF ~Falsy(arg, "search") /\ arg.search # "" THEN "search" :> arg.search ELSE EmptyObj)

\* response.ok
ok(response) == response.status >= 200 /\ response.status <= 299

\* the message of the Error the thunk throws on a response that is not ok
thrownMessage(thunk, response) ==
    CASE thunk = "fetchTasks" -> "Failed to fetch tasks"
      [] thunk = "createTask" -> OrElse(response.json, "error", "Failed to create task")
      [] thunk = "editTask"   -> OrElse(response.json, "error", "Failed to update task")
      [] thunk = "removeTask" -> "Failed to delete task"

\* what the thunk returns on a response that is ok: action.payload of .fulfilled
returned(thunk, arg, response) ==
    IF thunk = "removeTask" THEN arg.id ELSE response.json

\* .pending of fetchTasks
fetchTasksPending(st) == [st EXCEPT !.status = "loading", !.error = Null]

\* .pending of createTask, editTask and removeTask
otherPending(st) == [st EXCEPT !.status = "loading"]

\* mutant of fetchTasksFulfilled: the returned tasks are appended to the collection
fetchTasksFulfilledAppend(st, payload) ==
    [st EXCEPT !.status = "succeeded", !.tasks = st.tasks \o payload]

\* .fulfilled of fetchTasks
fetchTasksFulfilled(st, payload) ==
    [st EXCEPT !.status = "succeeded", !.tasks = payload]

\* mutant of createTaskFulfilled: push in the place of unshift
createTaskFulfilledPush(st, payload) ==
    [st EXCEPT !.status = "succeeded", !.tasks = Append(st.tasks, payload)]

\* .fulfilled of createTask: state.tasks.unshift(action.payload)
createTaskFulfilled(st, payload) ==
    [st EXCEPT !.status = "succeeded", !.tasks = <<payload>> \o st.tasks]

\* state.tasks.findIndex((t) => t.id === id), 1-based and 0 for -1
findIndexById(ts, id) ==
    IF \E i \in 1..Len(ts) : ts[i].id = id
    THEN CHOOSE i \in 1..Len(ts) : ts[i].id = id /\ \A j \in 1..(i - 1) : ts[j].id # id
    ELSE 0

\* mutant of editTaskFulfilled: a record that is not in the collection is added to it
editTaskFulfilledUpsert(st, payload) ==
    LET index == findIndexById(st.tasks, payload.id) IN
    IF index # 0
    THEN [st EXCEPT !.status = "succeeded", !.tasks[index] = payload]
    ELSE [st EXCEPT !.status = "succeeded", !.tasks = <<payload>> \o st.tasks]

\* .fulfilled of editTask
editTaskFulfilled(st, payload) ==
    LET index == findIndexById(st.tasks, payload.id) IN
    IF index # 0
    THEN [st EXCEPT !.status = "succeeded", !.tasks[index] = payload]
    ELSE [st EXCEPT !.status = "succeeded"]

\* mutant of removeTaskFulfilled: only the first task with the id is removed, and
\* none when it is the collection's first
removeTaskFulfilledAfterFirst(st, payload) ==
    [st EXCEPT !.status = "succeeded",
               !.tasks = IF st.tasks # << >> /\ st.tasks[1].id = payload THEN st.tasks
                         ELSE SelectSeq(st.tasks, LAMBDA t : t.id # payload)]

\* .fulfilled of removeTask
removeTaskFulfilled(st, payload) ==
    [st EXCEPT !.status = "succeeded",
               !.tasks = SelectSeq(st.tasks, LAMBDA t : t.id # payload)]

\* mutant of anyRejected: the status is set and the message is not stored
anyRejectedNoMessage(st, message) == [st EXCEPT !.status = "failed"]

\* mutant of anyRejected: a rejection that arrives while the status is succeeded is
\* dropped
anyRejectedUnlessSucceeded(st, message) ==
    IF st.status = "succeeded" THEN st
    ELSE [st EXCEPT !.status = "failed", !.error = message]

\* .rejected of each of the four thunks; message is action.error.message, which the
\* thunk's Error always carries
anyRejected(st, message) == [st EXCEPT !.status = "failed", !.error = message]

\* the reducer's result becomes the slice's state, and the components render again
Reduce(next) ==
    /\ Render(next.tasks, next.filters)
    /\ filters' = next.filters
    /\ selectedTask' = next.selectedTask
    /\ status' = next.status
    /\ error' = next.error


\* SpecClient dispatches at most this many thunks.
MaxOps == 2

\* what the components pass to the thunks
FetchArgs == {EmptyObj, [status |-> "todo", priority |-> "all", search |-> ""]}

CreateArgs ==
    {[title |-> "Fix the login page", description |-> "", priority |-> "medium",
      status |-> "todo", dueDate |-> "2025-04-02", tags |-> <<"bug">>, assignedTo |-> ""],
     [title |-> "  ", description |-> "", priority |-> "medium",
      status |-> "todo", dueDate |-> "2025-04-02", tags |-> << >>, assignedTo |-> ""]}

EditArgs ==
    {[id |-> randomUUID(1), data |-> [status |-> "done"]],
     [id |-> randomUUID(1), data |-> [dueDate |-> "next week"]]}

\* removeTask takes the id; the model keeps it as the record [id |-> id]
RemoveArgs == {[id |-> randomUUID(1)]}

\* the message of the TypeError fetch() rejects with when the network fails
NetworkErrors == {"Failed to fetch"}

\* what runs after `await dispatch(thunk(arg))`: nothing, or the rest of
\* TaskListClient's handleDeleteConfirm with the currentPageTasks.length, currentPage
\* and goToPage (its totalPages) of the render the handler belongs to
NoThen == [handler |-> "none", currentPageTasks |-> 0, currentPage |-> 0, totalPages |-> 0]

\* dispatch(thunk(arg)) followed by `then`: the .pending reducer runs and the
\* request is sent
DispatchThen(thunk, arg, next, then) ==
    /\ nops < MaxOps
    /\ Reduce(next)
    /\ usePagination(filteredTasks', currentPage)
    /\ inflight' = Append(inflight, [requestId |-> nops + 1, thunk |-> thunk, arg |-> arg,
                                     phase |-> "sent", response |-> NoResponse,
                                     then |-> then])
    /\ nops' = nops + 1
    /\ UNCHANGED serverVars

\* dispatch(thunk(arg)) with nothing awaiting it
Dispatch(thunk, arg, next) ==
    /\ DispatchThen(thunk, arg, next, NoThen)
    /\ UNCHANGED localVars

\* mutant of Then: handleDeleteConfirm closes the dialog and stays on its page
ThenStay(r, isFulfilled) ==
    /\ usePagination(filteredTasks', currentPage)
    /\ deleteDialog' = IF r.then.handler = "handleDeleteConfirm" THEN NoDialog
                       ELSE deleteDialog
    /\ editPage' = IF r.then.handler = "EditTaskPage.onSubmit" /\ isFulfilled
                   THEN NoEditPage ELSE editPage

\* the dispatch of the thunk call r has resolved, and what awaited it runs: the rest
\* of handleDeleteConfirm closes the dialog and, when its page showed one task and
\* was not page 1, calls its goToPage(currentPage - 1); the rest of EditTaskPage's
\* onSubmit callback leaves the page for the task's detail page when the thunk was
\* fulfilled
Then(r, isFulfilled) ==
    CASE r.then.handler = "handleDeleteConfirm" ->
            /\ deleteDialog' = NoDialog
            /\ IF r.then.currentPageTasks = 1 /\ r.then.currentPage > 1
               THEN usePagination(filteredTasks',
                                  Max(1, Min(r.then.currentPage - 1, r.then.totalPages)))
               ELSE usePagination(filteredTasks', currentPage)
            /\ UNCHANGED editPage
      [] r.then.handler = "EditTaskPage.onSubmit" ->
            /\ usePagination(filteredTasks', currentPage)
            /\ editPage' = IF isFulfilled THEN NoEditPage ELSE editPage
            /\ UNCHANGED deleteDialog
      [] OTHER ->
            /\ usePagination(filteredTasks', currentPage)
            /\ UNCHANGED localVars

fetchTasks ==
    /\ \E arg \in FetchArgs : Dispatch("fetchTasks", arg, fetchTasksPending(state))
    /\ UNCHANGED formVars

createTask ==
    /\ \E arg \in CreateArgs : Dispatch("createTask", arg, otherPending(state))
    /\ UNCHANGED formVars

editTask ==
    /\ \E arg \in EditArgs : Dispatch("editTask", arg, otherPending(state))
    /\ UNCHANGED formVars

removeTask ==
    /\ \E arg \in RemoveArgs : Dispatch("removeTask", arg, otherPending(state))
    /\ UNCHANGED formVars

\* the route handler's result for the request of thunk call r
Handled(r, elapsed) ==
    CASE r.thunk = "fetchTasks" -> GET(store, fetchTasksParams(r.arg))
      [] r.thunk = "createTask" ->
            POST(store, Json(r.arg), randomUUID(uuids + 1), clock + elapsed)
      [] r.thunk = "editTask"   -> PUT(store, r.arg.id, Json(r.arg.data))
      [] r.thunk = "removeTask" -> DELETE(store, r.arg.id)

\* the request of thunk call r under its HTTP method
RequestOf(r) ==
    CASE r.thunk = "fetchTasks" ->
            [NoRequest EXCEPT !.op = "GET", !.query = fetchTasksParams(r.arg)]
      [] r.thunk = "createTask" -> [NoRequest EXCEPT !.op = "POST", !.raw = Json(r.arg)]
      [] r.thunk = "editTask"   ->
            [NoRequest EXCEPT !.op = "PUT", !.id = r.arg.id, !.raw = Json(r.arg.data)]
      [] r.thunk = "removeTask" -> [NoRequest EXCEPT !.op = "DELETE", !.id = r.arg.id]

\* the server handles the request of thunk call i and sends its response; its clock
\* has advanced by 1 ms when a task is created
HandleRequest(i) ==
    /\ i \in 1..Len(inflight) /\ inflight[i].phase = "sent"
    /\ \E elapsed \in {0, 1} :
        LET r      == inflight[i]
            result == Handled(r, elapsed) IN
        /\ elapsed = (IF result.status = 201 THEN 1 ELSE 0)
        /\ Serve(RequestOf(r), result)
        /\ uuids' = IF result.status = 201 THEN uuids + 1 ELSE uuids
        /\ clock' = clock + elapsed
        /\ inflight' = [inflight EXCEPT ![i] =
                [r EXCEPT !.phase = "answered",
                          !.response = [status |-> result.status, json |-> result.json]]]
    /\ UNCHANGED <<clientVars, pageVars, sliceVars, nops, formVars, localVars>>

\* the reducer of thunk.fulfilled
fulfilledReducer(st, thunk, payload) ==
    CASE thunk = "fetchTasks" -> fetchTasksFulfilled(st, payload)
      [] thunk = "createTask" -> createTaskFulfilled(st, payload)
      [] thunk = "editTask"   -> editTaskFulfilled(st, payload)
      [] thunk = "removeTask" -> removeTaskFulfilled(st, payload)

\* the response of thunk call r arrives and is ok: thunk.fulfilled is dispatched
fulfilled(i) ==
    /\ i \in 1..Len(inflight)
    /\ LET r == inflight[i] IN
        /\ r.phase = "answered" /\ ok(r.response)
        /\ Reduce(fulfilledReducer(state, r.thunk, returned(r.thunk, r.arg, r.response)))
        /\ Then(r, TRUE)
    /\ inflight' = RemoveAt(inflight, i)
    /\ UNCHANGED <<serverVars, nops, formVars>>

\* the response of thunk call r arrives and is not ok, or fetch() fails (the request
\* or its response is lost): the thunk throws and thunk.rejected is dispatched
rejected(i) ==
    /\ i \in 1..Len(inflight)
    /\ LET r == inflight[i] IN
        \E message \in NetworkErrors \cup {thrownMessage(r.thunk, r.response)} :
            /\ message \notin NetworkErrors => (r.phase = "answered" /\ ~ok(r.response))
            /\ Reduce(anyRejected(state, message))
            /\ Then(r, FALSE)
    /\ inflight' = RemoveAt(inflight, i)
    /\ UNCHANGED <<serverVars, nops, formVars>>

\* TaskListClient's mount effect: dispatch(setTasks(initialTasks)) with the tasks the
\* page fetched from GET /api/tasks, when there are some and the store has none
setTasks ==
    LET initialTasks == GET(store, EmptyObj).json IN
    /\ Len(initialTasks) > 0 /\ Len(tasks) = 0
    /\ Reduce([state EXCEPT !.tasks = initialTasks])
    /\ usePagination(filteredTasks', currentPage)
    /\ UNCHANGED <<serverVars, thunkVars, formVars, localVars>>

\* the filters the user has chosen before the first thunk is dispatched
ClientFilters == {defaultFilters, [status |-> "all", priority |-> "high", search |-> ""]}

ClientInit ==
    /\ store = SeedTasks(0)
    /\ uuids = NumSeed
    /\ clock = 0
    /\ nreq = 0
    /\ req = NoRequest
    /\ resp = NoResponse
    /\ tasks = << >>
    /\ filters \in ClientFilters
    /\ filteredTasks = << >>
    /\ isFiltered = useTaskFilters(tasks, filters).isFiltered
    /\ PageInit(filteredTasks, PAGE_SIZE)
    /\ SliceInit
    /\ FormInit([k \in {} |-> ""])
    /\ ListInit

ClientNext ==
    \/ setTasks
    \/ fetchTasks
    \/ createTask
    \/ editTask
    \/ removeTask
    \/ \E i \in 1..MaxOps : HandleRequest(i)
    \/ \E i \in 1..MaxOps : fulfilled(i)
    \/ \E i \in 1..MaxOps : rejected(i)

SpecClient == ClientInit /\ [][ClientNext]_vars

----------------------------------------------------------------------------
(* Properties of the client store's thunks, checked under SpecClient *)

\* thunk call i is in flight and is a call of the thunk
InFlight(i, thunk) == i \in 1..Len(inflight) /\ inflight[i].thunk = thunk

\* C14: fetchTasks sets status to loading when it is dispatched; when its API call
\* succeeds the client collection becomes the returned array and status succeeded;
\* when it fails status becomes failed, a message is stored in error and the client
\* collection is left as it was.
C14_LoadLifecycle ==
    [][/\ fetchTasks => (status' = "loading" /\ tasks' = tasks)
       /\ \A i \in 1..MaxOps : InFlight(i, "fetchTasks") =>
            /\ fulfilled(i) => (tasks' = inflight[i].response.json /\ status' = "succeeded")
            /\ rejected(i) => (status' = "failed" /\ error' # Null /\ tasks' = tasks)]_vars

\* C14's case: a load with a status filter replaced the five tasks the list was
\* mounted with by the server's todo tasks
C14_Witness ==
    /\ status = "succeeded" /\ inflight = << >>
    /\ req.op = "GET" /\ req.query = [status |-> "todo"]
    /\ tasks = resp.json
    /\ Len(tasks) > 0 /\ Len(tasks) < Len(store)

\* C15: whenever a thunk (load, create, edit or remove) is rejected, status becomes
\* failed, error holds a message, and the client collection, the filters and the
\* selected task are as they were before the rejection.
C15_RejectedKeepsData ==
    [][\A i \in 1..MaxOps : rejected(i) =>
            /\ status' = "failed"
            /\ error' # Null
            /\ tasks' = tasks
            /\ filters' = filters
            /\ selectedTask' = selectedTask]_vars

\* C15's case: a create was answered 400 and rejected with the server's message, over
\* a mounted list and filters that are not the defaults
C15_Witness ==
    /\ status = "failed" /\ inflight = << >>
    /\ error = "Title is required and cannot be empty"
    /\ Len(tasks) = NumSeed
    /\ filters # defaultFilters

\* C16: a create leaves the client collection as it is when it is dispatched and
\* while its request is handled; when it succeeds the task the server returned is put
\* at index 0, the tasks that were there follow in their order, and status becomes
\* succeeded.
C16_CreatePrepends ==
    [][/\ createTask => tasks' = tasks
       /\ \A i \in 1..MaxOps : InFlight(i, "createTask") =>
            /\ HandleRequest(i) => tasks' = tasks
            /\ fulfilled(i) =>
                /\ status' = "succeeded"
                /\ Len(tasks') = Len(tasks) + 1
                /\ tasks'[1] = inflight[i].response.json
                /\ \A k \in 1..Len(tasks) : tasks'[k + 1] = tasks[k]]_vars

\* C16's case: the created task is first in the list, before the five the list was
\* mounted with
C16_Witness ==
    /\ status = "succeeded" /\ inflight = << >>
    /\ Len(tasks) = NumSeed + 1
    /\ tasks[1].id = randomUUID(NumSeed + 1)
    /\ tasks[2].id = randomUUID(1)

\* C17: when an edit succeeds, the client task with the id of the record the server
\* returned becomes that record, every other client task and the collection's order
\* and length stay as they were, and status becomes succeeded; when no client task
\* has that id the collection stays as it was: the record is not put back.
C17_EditReplacesInPlace ==
    [][\A i \in 1..MaxOps : (InFlight(i, "editTask") /\ fulfilled(i)) =>
            LET record == inflight[i].response.json IN
            /\ status' = "succeeded"
            /\ Len(tasks') = Len(tasks)
            /\ \A k \in 1..Len(tasks) :
                tasks'[k] = (IF tasks[k].id = record.id THEN record ELSE tasks[k])
            /\ (\A k \in 1..Len(tasks) : tasks[k].id # record.id) => tasks' = tasks]_vars

\* C17's case: the edit of the first task's status went through and the client holds
\* the server's record of it, in its place
C17_Witness ==
    /\ status = "succeeded" /\ inflight = << >>
    /\ req.op = "PUT" /\ resp.status = 200
    /\ Len(tasks) = NumSeed
    /\ tasks[1] = resp.json
    /\ tasks[1].status = "done"
    /\ tasks[2].id = randomUUID(2)

\* C18: a remove leaves the client collection as it is when it is dispatched and
\* while its request is handled; when it succeeds the collection loses exactly the
\* tasks with the removed id, the others keep their order, and status becomes
\* succeeded.
C18_RemoveOnConfirmation ==
    [][/\ removeTask => tasks' = tasks
       /\ \A i \in 1..MaxOps : InFlight(i, "removeTask") =>
            /\ HandleRequest(i) => tasks' = tasks
            /\ fulfilled(i) =>
                /\ status' = "succeeded"
                /\ tasks' = SelectSeq(tasks, LAMBDA t : t.id # inflight[i].arg.id)]_vars

\* C18's case: the first of the five mounted tasks was removed, on the server and
\* then on the client
C18_Witness ==
    /\ status = "succeeded" /\ inflight = << >>
    /\ req.op = "DELETE" /\ resp.status = 200
    /\ Len(tasks) = NumSeed - 1
    /\ tasks[1].id = randomUUID(2)
    /\ \A k \in 1..Len(store) : store[k].id # randomUUID(1)

\* C19: with two thunks in flight at the same time, the status after each of them
\* settles is that settlement's outcome, so after both have settled it is the outcome
\* of the one that settled last; a failure that settles first is followed by
\* succeeded when the other thunk succeeds after it.
C19_LastSettlementWins ==
    [][\A i \in 1..MaxOps :
            /\ fulfilled(i) => status' = "succeeded"
            /\ rejected(i) => status' = "failed"
            /\ (Len(inflight) = 2 /\ (fulfilled(i) \/ rejected(i))) => Len(inflight') = 1
            /\ (Len(inflight) = 1 /\ status = "failed" /\ fulfilled(i)) =>
                    (status' = "succeeded" /\ inflight' = << >>)]_vars

\* C19's case: two thunks were in flight together, the second one dispatched has been
\* rejected, and the first one's response, which is ok, is still to arrive
C19_Witness ==
    /\ nops = 2 /\ Len(inflight) = 1
    /\ inflight[1].requestId = 1
    /\ inflight[1].phase = "answered" /\ ok(inflight[1].response)
    /\ status = "failed" /\ error # Null

----------------------------------------------------------------------------
(* hooks/useTaskForm.ts and the pages that submit the form, under SpecForm *)

\* String.prototype.split(sep) for a separator of one character
RECURSIVE split(_, _)
split(str, sep) ==
    IF \A i \in 1..Len(str) : CharAt(str, i) # sep THEN <<str>>
    ELSE LET i == CHOOSE i \in 1..Len(str) :
                    CharAt(str, i) = sep /\ \A j \in 1..(i - 1) : CharAt(str, j) # sep
         IN  <<SubSeq(str, 1, i - 1)>> \o split(SubSeq(str, i + 1, Len(str)), sep)

\* arr.map((t) => t.trim())
mapTrim(arr) == [i \in 1..Len(arr) |-> trim(arr[i])]

\* mutant of validate: the rules on priority and status are left out
validateWithoutEnums(vals) ==
    (IF trim(vals.title) = "" THEN "title" :> "Title is required" ELSE EmptyObj)
    @@ (IF vals.dueDate = "" THEN "dueDate" :> "Due date is required"
        ELSE IF isNaN(getTime(vals.dueDate))
        THEN "dueDate" :> "Due date must be a valid date" ELSE EmptyObj)

\* validate(): the newErrors object it builds from the values
validate(vals) ==
    (IF trim(vals.title) = "" THEN "title" :> "Title is required" ELSE EmptyObj)
    @@ (IF vals.dueDate = "" THEN "dueDate" :> "Due date is required"
        ELSE IF isNaN(getTime(vals.dueDate))
        THEN "dueDate" :> "Due date must be a valid date" ELSE EmptyObj)
    @@ (IF ~arrayIncludes(<<"low", "medium", "high">>, vals.priority)
        THEN "priority" :> "Priority must be low, medium, or high" ELSE EmptyObj)
    @@ (IF ~arrayIncludes(<<"todo", "in-progress", "done">>, vals.status)
        THEN "status" :> "Status must be todo, in-progress, or done" ELSE EmptyObj)

\* mutant of cleanData: the tags string is split and its pieces are kept as they are
cleanDataRawTags(vals) ==
    [title |-> trim(vals.title),
     description |-> trim(vals.description),
     priority |-> vals.priority,
     status |-> vals.status,
     dueDate |-> vals.dueDate,
     assignedTo |-> trim(vals.assignedTo),
     tags |-> split(vals.tags, ",")]

\* the data object handleSubmit builds for its callback
cleanData(vals) ==
    LET tagsArray == SelectSeq(mapTrim(split(vals.tags, ",")), LAMBDA t : Len(t) > 0) IN
    [title |-> trim(vals.title),
     description |-> trim(vals.description),
     priority |-> vals.priority,
     status |-> vals.status,
     dueDate |-> vals.dueDate,
     assignedTo |-> trim(vals.assignedTo),
     tags |-> tagsArray]

\* SpecForm calls handleChange at most this many times.
MaxChanges == 3

\* what the user puts into the form's fields
FieldInputs ==
    {<<"title", v>> : v \in {"  ", " Ship the API "}}
    \cup {<<"description", " Draft ">>, <<"assignedTo", " Bob ">>, <<"status", "blocked">>}
    \cup {<<"priority", v>> : v \in {"urgent", "high"}}
    \cup {<<"dueDate", v>> : v \in {"", "next week", "2025-04-01"}}
    \cup {<<"tags", v>> : v \in {"ui, bug fix ,,api", " , "}}

\* mutant of handleChange: setErrors({}) in the place of clearing the field's error
handleChangeClearsErrors ==
    /\ nchanges < MaxChanges
    /\ \E input \in FieldInputs :
        /\ values' = [values EXCEPT ![input[1]] = input[2]]
        /\ errors' = EmptyObj
    /\ nchanges' = nchanges + 1
    /\ UNCHANGED <<serverVars, clientVars, pageVars, sliceVars, thunkVars, localVars, initialValues>>

\* handleChange(field, value): the value is set and the field's error is set to undefined
handleChange ==
    /\ nchanges < MaxChanges
    /\ \E input \in FieldInputs :
        /\ values' = [values EXCEPT ![input[1]] = input[2]]
        /\ errors' = (input[1] :> Undefined) @@ errors
    /\ nchanges' = nchanges + 1
    /\ UNCHANGED <<serverVars, clientVars, pageVars, sliceVars, thunkVars, localVars, initialValues>>

\* the page's onSubmit, behind a button that is disabled while status is loading:
\* handleSubmit validates and, when the values are valid, calls the page's callback,
\* which dispatches createTask(data), or editTask({id, data}) in edit mode
onSubmit ==
    /\ status # "loading"
    /\ errors' = validate(values)
    /\ IF DOMAIN validate(values) # {}
       THEN UNCHANGED <<serverVars, clientVars, pageVars, sliceVars, thunkVars, localVars>>
       ELSE IF "id" \in DOMAIN initialValues
            THEN Dispatch("editTask", [id |-> initialValues.id, data |-> cleanData(values)],
                          otherPending(state))
            ELSE Dispatch("createTask", cleanData(values), otherPending(state))
    /\ UNCHANGED <<initialValues, values, nchanges>>

\* reset(): the values of the first render, and no errors
reset ==
    /\ values' = buildInitial(initialValues)
    /\ errors' = EmptyObj
    /\ UNCHANGED <<serverVars, clientVars, pageVars, sliceVars, thunkVars, localVars, initialValues,
                   nchanges>>

\* the tags the first seed task has when its edit form is opened: the seed's own, a
\* tag with a space in it held twice, none, and tags the API accepts and the form
\* cannot produce (a comma inside, spaces around, the empty string)
FormTags == {<<"design", "frontend">>, <<"bug fix", "bug fix">>, << >>,
             <<"a,b", " ui ", "">>}

\* the store after PUT /api/tasks/:id has given the first seed task those tags
FormStores == {updateTask(SeedTasks(0), randomUUID(1), [tags |-> t]).store : t \in FormTags}

\* the create page (no initialValues) or the edit page of the first seed task, opened
\* from the mounted task list
FormSpecInit ==
    /\ store \in FormStores
    /\ uuids = NumSeed
    /\ clock = 0
    /\ nreq = 0
    /\ req = NoRequest
    /\ resp = NoResponse
    /\ tasks = store
    /\ filters = defaultFilters
    /\ filteredTasks = useTaskFilters(tasks, filters).filteredTasks
    /\ isFiltered = FALSE
    /\ PageInit(filteredTasks, PAGE_SIZE)
    /\ SliceInit
    /\ \E init \in {store[1]} \cup (IF store = SeedTasks(0) THEN {EmptyObj} ELSE {}) :
        FormInit(init)
    /\ ListInit

FormNext ==
    \/ handleChange
    \/ onSubmit
    \/ reset

SpecForm == FormSpecInit /\ [][FormNext]_vars

\* t is str without its leading and trailing white space
IsTrimOf(t, str) ==
    \E a \in 1..(Len(str) + 1), b \in 0..Len(str) :
        /\ t = SubSeq(str, a, b)
        /\ \A j \in 1..(a - 1) : IsWhiteSpace(CharAt(str, j))
        /\ \A j \in (b + 1)..Len(str) : IsWhiteSpace(CharAt(str, j))
        /\ (a <= b) => (~IsWhiteSpace(CharAt(str, a)) /\ ~IsWhiteSpace(CharAt(str, b)))
        /\ (a > b) => (a = 1 /\ b = 0 /\ Blank(str))

\* where the string is cut at its commas: before its start, at each comma, after its end
Cuts(str) == {0, Len(str) + 1} \cup {i \in 1..Len(str) : CharAt(str, i) = ","}

\* the pieces of the string between its commas, in order
Pieces(str) ==
    [n \in 1..(Cardinality(Cuts(str)) - 1) |->
        LET from == CHOOSE c \in Cuts(str) : Cardinality({d \in Cuts(str) : d < c}) = n - 1
            to   == CHOOSE c \in Cuts(str) : Cardinality({d \in Cuts(str) : d < c}) = n
        IN  SubSeq(str, from + 1, to - 1)]

\* the tags are the string's pieces that are not blank, each trimmed, in order
IsTagsOf(tags, str) ==
    LET kept == SelectSeq(Pieces(str), NonBlank) IN
    /\ Len(tags) = Len(kept)
    /\ \A n \in 1..Len(kept) : IsTrimOf(tags[n], kept[n])

\* the form's values break a rule of the validation
InvalidForm(vals) ==
    \/ Blank(vals.title)
    \/ vals.dueDate = "" \/ isNaN(getTime(vals.dueDate))
    \/ vals.priority \notin AllowedPriorities
    \/ vals.status \notin AllowedStatuses

\* the field has an error message recorded
HasError(errs, k) == k \in DOMAIN errs /\ errs[k] # Undefined

\* C20: a submit validates the current values. When the title is empty after trim, the
\* due date is missing or unparseable, or priority or status is not an allowed value,
\* the callback is not called, so no thunk is dispatched, and each field at fault has
\* its error recorded; when the values are valid the callback is called once, with
\* title, description and assignedTo trimmed and the tags string split at its commas,
\* each piece trimmed and the empty ones dropped.
C20_SubmitValidates ==
    [][onSubmit =>
        IF InvalidForm(values)
        THEN /\ inflight' = inflight /\ nops' = nops /\ status' = status
             /\ Blank(values.title) <=> HasError(errors', "title")
             /\ (values.dueDate = "" \/ isNaN(getTime(values.dueDate)))
                    <=> HasError(errors', "dueDate")
             /\ (values.priority \notin AllowedPriorities) <=> HasError(errors', "priority")
             /\ (values.status \notin AllowedStatuses) <=> HasError(errors', "status")
        ELSE /\ Len(inflight') = Len(inflight) + 1 /\ nops' = nops + 1
             /\ SubSeq(inflight', 1, Len(inflight)) = inflight
             /\ LET call == inflight'[Len(inflight')]
                    data == IF call.thunk = "editTask" THEN call.arg.data ELSE call.arg
                IN  /\ call.thunk \in {"createTask", "editTask"}
                    /\ IsTrimOf(data.title, values.title)
                    /\ IsTrimOf(data.description, values.description)
                    /\ IsTrimOf(data.assignedTo, values.assignedTo)
                    /\ IsTagsOf(data.tags, values.tags)
                    /\ data.priority = values.priority
                    /\ data.status = values.status
                    /\ data.dueDate = values.dueDate]_vars

\* C20's case: the create form was submitted with a padded title and a tags string
\* with padded and empty pieces, and createTask was dispatched with the clean data
C20_Witness ==
    /\ Len(inflight) = 1 /\ inflight[1].thunk = "createTask"
    /\ values.title = " Ship the API " /\ inflight[1].arg.title = "Ship the API"
    /\ values.tags = "ui, bug fix ,,api"
    /\ inflight[1].arg.tags = <<"ui", "bug fix", "api">>
    /\ DOMAIN errors = {}

----------------------------------------------------------------------------
(* Further properties of the CRUD API, checked under Spec.                 *)

\* the body of an update request that must be refused
InvalidUpdate(body) ==
    \/ Has(body, "dueDate") /\ isNaN(getTime(body.dueDate))
    \/ Has(body, "title") /\ ~NonBlank(body.title)

\* C21: an update request for a known id whose body supplies an unparseable dueDate
\* or a title that is empty after trim is answered 400 and leaves the store as it
\* was: no field of the body is merged.
C21_InvalidUpdateRejected ==
    [][(req'.op = "PUT" /\ Known(store, req'.id) /\ req'.raw.json
            /\ InvalidUpdate(req'.raw.obj)) =>
        (resp'.status = 400 /\ store' = store)]_vars

\* C21's case: an update of the first seed task that supplies a blank title next to
\* a new status was answered 400, and the task still has the status it had
C21_Witness ==
    /\ req.op = "PUT" /\ req.id = randomUUID(1) /\ req.raw.json
    /\ Has(req.raw.obj, "title") /\ ~NonBlank(req.raw.obj.title)
    /\ Has(req.raw.obj, "status") /\ req.raw.obj.status = "done"
    /\ resp.status = 400
    /\ \E i \in 1..Len(store) : store[i].id = randomUUID(1) /\ store[i].status = "in-progress"

----------------------------------------------------------------------------
(* app/tasks/TaskListClient.tsx with components/TaskFiltersBar.tsx: the task  *)
(* list page over the store of a server on which two tasks have been created *)
(* after the seed, so that the list has a second page.  SpecList.            *)

\* the two tasks created after the seed
ListBodies == <<
    [title |-> "Fix the login page", description |-> "", priority |-> "medium",
     status |-> "todo", dueDate |-> "2025-04-02", tags |-> <<"bug">>, assignedTo |-> ""],
    [title |-> "Review the release notes", description |-> "", priority |-> "low",
     status |-> "done", dueDate |-> "2025-04-03", tags |-> << >>, assignedTo |-> "Dana"] >>

\* the server after the two create requests, 1 ms apart
ListServer ==
    LET first  == POST(SeedTasks(0), Json(ListBodies[1]), randomUUID(NumSeed + 1), 1)
        second == POST(first.store, Json(ListBodies[2]), randomUUID(NumSeed + 2), 2)
    IN  [store |-> second.store, uuids |-> NumSeed + 2, clock |-> 2, nreq |-> 2,
         req |-> [NoRequest EXCEPT !.op = "POST", !.raw = Json(ListBodies[2])],
         resp |-> [status |-> second.status, json |-> second.json]]

\* what the user types and selects in the filters bar
ListFilterPayloads == {[priority |-> "high"], [search |-> "  "]}

\* the task grid and the pagination controls are rendered when status is not
\* loading, the controls when there is more than one page; the open dialog's
\* overlay covers the page
GridShown == status # "loading" /\ ~deleteDialog.open
ControlsShown == GridShown /\ totalPages(Len(items), pageSize) > 1

\* handleSearch, handleStatus, handlePriority of the filters bar
handleFilter ==
    /\ ~deleteDialog.open
    /\ \E payload \in ListFilterPayloads :
        /\ filters' = MergeFilters(filters, payload)
        /\ Render(tasks, MergeFilters(filters, payload))
    /\ usePagination(filteredTasks', currentPage)
    /\ UNCHANGED <<serverVars, sliceVars, thunkVars, formVars, localVars>>

\* handleClear of the filters bar
handleClear == ~deleteDialog.open /\ clearFilters

\* a page number button, the Next button (disabled on the last page) and the Prev
\* button (disabled on page 1)
clickPage ==
    /\ ControlsShown
    /\ \E page \in 1..totalPages(Len(items), pageSize) : goToPage(page)

clickNext ==
    /\ ControlsShown /\ currentPage # totalPages(Len(items), pageSize)
    /\ nextPage

clickPrev ==
    /\ ControlsShown /\ currentPage # 1
    /\ prevPage

\* handleDeleteClick(id) from the card of a task of the current page: the model
\* clicks the page's first and last card
handleDeleteClick ==
    /\ GridShown
    /\ \E i \in {1, Len(currentPageItems)} \cap (1..Len(currentPageItems)) :
        deleteDialog' = [open |-> TRUE, taskId |-> currentPageItems[i].id]
    /\ UNCHANGED <<serverVars, clientVars, pageVars, sliceVars, thunkVars, formVars, editPage>>

\* onCancel of the dialog
onCancel ==
    /\ deleteDialog.open
    /\ deleteDialog' = NoDialog
    /\ UNCHANGED <<serverVars, clientVars, pageVars, sliceVars, thunkVars, formVars, editPage>>

\* handleDeleteConfirm up to its await: dispatch(removeTask(deleteDialog.taskId))
handleDeleteConfirm ==
    /\ deleteDialog.open /\ deleteDialog.taskId # Null
    /\ DispatchThen("removeTask", [id |-> deleteDialog.taskId], otherPending(state),
                    [handler |-> "handleDeleteConfirm",
                     currentPageTasks |-> Len(currentPageItems),
                     currentPage |-> currentPage,
                     totalPages |-> totalPages(Len(items), pageSize)])
    /\ UNCHANGED <<formVars, localVars>>

\* the "Try again" button of the error state: dispatch(fetchTasks())
tryAgain ==
    /\ status = "failed" /\ ~deleteDialog.open
    /\ Dispatch("fetchTasks", EmptyObj, fetchTasksPending(state))
    /\ UNCHANGED formVars

ListSpecInit ==
    /\ store = ListServer.store
    /\ uuids = ListServer.uuids
    /\ clock = ListServer.clock
    /\ nreq = ListServer.nreq
    /\ req = ListServer.req
    /\ resp = ListServer.resp
    /\ tasks = << >>
    /\ filters = defaultFilters
    /\ filteredTasks = << >>
    /\ isFiltered = FALSE
    /\ PageInit(filteredTasks, PAGE_SIZE)
    /\ SliceInit
    /\ FormInit([k \in {} |-> ""])
    /\ ListInit

ListNext ==
    \/ setTasks
    \/ handleFilter
    \/ handleClear
    \/ clickPage
    \/ clickNext
    \/ clickPrev
    \/ handleDeleteClick
    \/ onCancel
    \/ handleDeleteConfirm
    \/ tryAgain
    \/ \E i \in 1..MaxOps : HandleRequest(i)
    \/ \E i \in 1..MaxOps : fulfilled(i)
    \/ \E i \in 1..MaxOps : rejected(i)

SpecList == ListSpecInit /\ [][ListNext]_vars

----------------------------------------------------------------------------
(* Properties of the task list page, checked under SpecList *)

\* the step leaves the task collection, the selected task, the status flag and the
\* error field as they were and neither sends nor serves a request
NoOtherEffect ==
    /\ tasks' = tasks /\ selectedTask' = selectedTask
    /\ status' = status /\ error' = error
    /\ inflight' = inflight /\ nops' = nops
    /\ UNCHANGED serverVars

\* C22: set-filters overwrites exactly the filter fields it is given and keeps the
\* others, clear-filters sets the filters to {status: all, priority: all, search: ""},
\* and neither changes the task collection, the selected task, the status flag or
\* the error field, nor starts a network request.
C22_FilterActionsFrame ==
    [][/\ handleFilter =>
            /\ \E payload \in ListFilterPayloads :
                /\ DOMAIN filters' = DOMAIN filters
                /\ \A k \in DOMAIN payload : filters'[k] = payload[k]
                /\ \A k \in (DOMAIN filters) \ (DOMAIN payload) : filters'[k] = filters[k]
            /\ NoOtherEffect
       /\ handleClear =>
            /\ filters' = [status |-> "all", priority |-> "all", search |-> ""]
            /\ NoOtherEffect]_vars

\* C22's case: both filters of the model have been set, the second keeping the
\* first, while a load is in flight and the collection holds tasks
C22_Witness ==
    /\ filters = [status |-> "all", priority |-> "high", search |-> "  "]
    /\ status = "loading" /\ Len(inflight) = 1 /\ inflight[1].thunk = "fetchTasks"
    /\ Len(tasks) > 0

----------------------------------------------------------------------------
(* app/tasks/[id]/edit/page.tsx: the edit page of a task, opened with the    *)
(* client collection loaded or not.  SpecEdit.                               *)

\* state.tasks.tasks.find((t) => t.id === params.id): << >> for undefined
existingInRedux(ts, id) ==
    IF findIndexById(ts, id) # 0 THEN <<ts[findIndexById(ts, id)]>> ELSE << >>

\* the ids the edit page is opened for: a stored task and an id the store does not
\* hold
EditIds == {randomUUID(1), "no-such-id"}

\* the page's first render and its effect: task and fetchLoading start from
\* existingInRedux, useTaskForm(task ?? undefined) builds the form's values, and
\* the effect sends GET /api/tasks/:id when the task is not in the collection
EditInit(id) ==
    /\ editPage = [id |-> id,
                   task |-> existingInRedux(tasks, id),
                   fetchLoading |-> existingInRedux(tasks, id) = << >>,
                   fetchError |-> Null,
                   fetch |-> IF existingInRedux(tasks, id) = << >> THEN "sent" ELSE "none",
                   res |-> NoResponse]
    /\ FormInit(IF existingInRedux(tasks, id) = << >> THEN EmptyObj
                ELSE existingInRedux(tasks, id)[1])

\* the page renders the form when it is not loading and has its task
FormShown ==
    /\ editPage.id # Null
    /\ ~editPage.fetchLoading /\ editPage.fetchError = Null /\ editPage.task # << >>

\* the server handles the page's GET /api/tasks/:id
fetchTaskServed ==
    /\ editPage.fetch = "sent"
    /\ LET result == GETById(store, editPage.id) IN
        /\ Serve([NoRequest EXCEPT !.op = "GET/:id", !.id = editPage.id], result)
        /\ editPage' = [editPage EXCEPT !.fetch = "answered",
                            !.res = [status |-> result.status, json |-> result.json]]
    /\ UNCHANGED <<uuids, clock, clientVars, pageVars, sliceVars, thunkVars, formVars,
                   deleteDialog>>

\* fetchTask's await returns: setTask(data) on a response that is ok
fetchTaskResolved ==
    /\ editPage.fetch = "answered" /\ ok(editPage.res)
    /\ editPage' = [editPage EXCEPT !.fetch = "settled", !.task = <<editPage.res.json>>,
                                    !.fetchLoading = FALSE]
    /\ UNCHANGED <<serverVars, clientVars, pageVars, sliceVars, thunkVars, formVars,
                   deleteDialog>>

\* fetchTask's catch: the response is not ok ("Task not found"), or fetch() failed
fetchTaskFailed ==
    /\ editPage.fetch \in {"sent", "answered"}
    /\ \E message \in NetworkErrors \cup {"Task not found"} :
        /\ message \notin NetworkErrors =>
                (editPage.fetch = "answered" /\ ~ok(editPage.res))
        /\ editPage' = [editPage EXCEPT !.fetch = "settled", !.fetchError = message,
                                        !.fetchLoading = FALSE]
    /\ UNCHANGED <<serverVars, clientVars, pageVars, sliceVars, thunkVars, formVars,
                   deleteDialog>>

\* an input of the displayed form changes
editChange == FormShown /\ handleChange

\* the page's onSubmit, behind a button that is disabled while status is loading
editSubmit ==
    /\ FormShown /\ status # "loading"
    /\ errors' = validate(values)
    /\ IF DOMAIN validate(values) # {}
       THEN UNCHANGED <<serverVars, clientVars, pageVars, sliceVars, thunkVars>>
       ELSE DispatchThen("editTask",
                         [id |-> editPage.task[1].id, data |-> cleanData(values)],
                         otherPending(state),
                         [NoThen EXCEPT !.handler = "EditTaskPage.onSubmit"])
    /\ UNCHANGED <<initialValues, values, nchanges, localVars>>

EditSpecInit ==
    /\ store = SeedTasks(0)
    /\ uuids = NumSeed
    /\ clock = 0
    /\ nreq = 0
    /\ req = NoRequest
    /\ resp = NoResponse
    /\ tasks \in {<< >>, store}
    /\ filters = defaultFilters
    /\ filteredTasks = useTaskFilters(tasks, filters).filteredTasks
    /\ isFiltered = FALSE
    /\ PageInit(filteredTasks, PAGE_SIZE)
    /\ SliceInit
    /\ deleteDialog = NoDialog
    /\ \E id \in EditIds : EditInit(id)

EditNext ==
    \/ fetchTaskServed
    \/ fetchTaskResolved
    \/ fetchTaskFailed
    \/ editChange
    \/ editSubmit
    \/ \E i \in 1..MaxOps : HandleRequest(i)
    \/ \E i \in 1..MaxOps : fulfilled(i)
    \/ \E i \in 1..MaxOps : rejected(i)

SpecEdit == EditSpecInit /\ [][EditNext]_vars

----------------------------------------------------------------------------
(* Properties of the edit page, checked under SpecEdit *)

\* C23: whenever the edit page shows the form for a task T, whether T was in the
\* client collection when the page mounted or was fetched by id after mounting,
\* the form's values before any user input are T's title, description, priority,
\* status, dueDate and assignedTo, and T's tags joined with ", ".
C23_EditFormInitialized ==
    (FormShown /\ nchanges = 0) =>
        LET T == editPage.task[1] IN
        /\ \A k \in {"title", "description", "priority", "status", "dueDate", "assignedTo"} :
            values[k] = T[k]
        /\ values.tags = join(T.tags, ", ")

----------------------------------------------------------------------------
(* Further properties of the task list page, checked under SpecList *)

\* C24: when the current page p > 1 of the task list shows exactly one task and the
\* user removes that task (confirms its removal on that page), currentPage is p - 1
\* once the removal has completed.
C24_StepBackAfterRemoval ==
    [][/\ handleDeleteConfirm =>
            LET r == inflight'[Len(inflight')] IN
            /\ \E j \in 1..Len(currentPageItems) : currentPageItems[j].id = r.arg.id
            /\ r.then.currentPage = currentPage
            /\ r.then.currentPageTasks = Len(currentPageItems)
       /\ \A i \in 1..MaxOps :
            (/\ fulfilled(i) /\ inflight[i].thunk = "removeTask"
             /\ inflight[i].then.currentPage > 1 /\ inflight[i].then.currentPageTasks = 1)
                => /\ currentPage' = inflight[i].then.currentPage - 1
                   /\ ~Known(tasks', inflight[i].arg.id)]_vars

\* C24's case: the one task of page 2 (the oldest of the seven, with no filter set)
\* has been removed, and the list, now of six tasks, is on page 1
C24_Witness ==
    /\ filters = defaultFilters /\ nops = 1 /\ inflight = << >>
    /\ status = "succeeded" /\ ~deleteDialog.open
    /\ Len(tasks) = 6 /\ ~Known(tasks, randomUUID(NumSeed))
    /\ Len(items) = 6 /\ currentPage = 1 /\ Len(currentPageItems) = 6

----------------------------------------------------------------------------
(* Further properties of the task form, checked under SpecForm *)

\* the error recorded for a field, Undefined when there is none
ErrorOf(errs, k) == IF HasError(errs, k) THEN errs[k] ELSE Undefined

FormFields == {"title", "description", "priority", "status", "dueDate", "assignedTo", "tags"}

\* the value the form was initialized with: the field of the task it was given, its
\* tags joined with ", ", and otherwise the default
InitializedWith(k) ==
    IF ~Has(initialValues, k)
    THEN (CASE k = "priority" -> "medium" [] k = "status" -> "todo" [] OTHER -> "")
    ELSE IF k = "tags" THEN join(initialValues.tags, ", ")
    ELSE initialValues[k]

\* C25: changing one field sets that field to the value, clears the recorded error of
\* that field only and leaves the other fields' values and errors as they were;
\* reset() restores every field to the value the form was initialized with and
\* clears all errors.
C25_ChangeAndReset ==
    [][/\ handleChange =>
            \E input \in FieldInputs :
                /\ values'[input[1]] = input[2]
                /\ ~HasError(errors', input[1])
                /\ \A k \in FormFields \ {input[1]} :
                    /\ values'[k] = values[k]
                    /\ ErrorOf(errors', k) = ErrorOf(errors, k)
       /\ reset =>
            /\ DOMAIN values' = FormFields
            /\ \A k \in FormFields : values'[k] = InitializedWith(k)
            /\ \A k \in FormFields : ~HasError(errors', k)]_vars

\* C25's case: after a submit of the create form recorded the errors of the title and
\* of the due date, the title was changed: its error is cleared, the other remains
C25_Witness ==
    /\ ~Has(initialValues, "id")
    /\ values.title = " Ship the API " /\ values.dueDate = ""
    /\ Has(errors, "title") /\ ~HasError(errors, "title")
    /\ HasError(errors, "dueDate")

\* a tag that is non-empty, has no white space at its ends and holds no comma
PlainTag(tag) ==
    /\ tag # ""
    /\ ~IsWhiteSpace(CharAt(tag, 1)) /\ ~IsWhiteSpace(CharAt(tag, Len(tag)))
    /\ \A j \in 1..Len(tag) : CharAt(tag, j) # ","

\* C26: for every list of tags each of which is non-empty, has no leading or trailing
\* white space and holds no comma, a form initialized from a task with those tags
\* and submitted with its tags field not edited dispatches exactly that list of
\* tags, in the same order and with duplicates kept.
C26_TagsRoundTrip ==
    [][(/\ onSubmit
        /\ Has(initialValues, "tags")
        /\ \A j \in 1..Len(initialValues.tags) : PlainTag(initialValues.tags[j])
        /\ values.tags = InitializedWith("tags")
        /\ ~InvalidForm(values))
            => /\ Len(inflight') = Len(inflight) + 1
               /\ inflight'[Len(inflight')].thunk = "editTask"
               /\ inflight'[Len(inflight')].arg.data.tags = initialValues.tags]_vars

\* C26's case: the form of a task with the tag "bug fix" twice has been submitted
\* and editTask was dispatched with the tag twice
C26_Witness ==
    /\ Has(initialValues, "tags") /\ initialValues.tags = <<"bug fix", "bug fix">>
    /\ values.tags = "bug fix, bug fix"
    /\ Len(inflight) = 1 /\ inflight[1].thunk = "editTask"
    /\ inflight[1].arg.data.tags = <<"bug fix", "bug fix">>

----------------------------------------------------------------------------
(* Invariants of the task list page, checked under SpecList *)

\* C27: in the task list currentPage is within 1..totalPages in every reachable
\* state, also after the filtered tasks have become fewer (a filter was changed, a
\* task was removed or the collection was loaded again) on a later page.
C27_CurrentPageInRange ==
    /\ currentPage >= 1
    /\ currentPage <= PagesNeeded(Len(filteredTasks), PAGE_SIZE)

----------------------------------------------------------------------------
(* Invariants of the client store against the server, checked under SpecClient *)

\* C28: the client's task collection never holds two tasks with the same id, in
\* every interleaving of loads and creates against a server whose store has unique
\* ids (a load whose response already holds a task whose create has not yet
\* settled on the client included).
C28_ClientIdsUnique == UniqueIds(store) => UniqueIds(tasks)

\* C29: with a single client, once every dispatched operation has settled, every
\* task of the client's collection is in the server's store, in every interleaving of
\* load, create, edit and remove operations and of their responses.
C29_ClientWithinServer ==
    inflight = << >> => \A i \in 1..Len(tasks) : Known(store, tasks[i].id)

\* C30: in every reachable state of the client store status = succeeded implies
\* error = null.
C30_SucceededHasNoError == status = "succeeded" => error = Null

====
